---- MODULE Spec2Model ----
(***************************************************************************)
(* A model of the Blunderbuss chess engine.                                *)
(*                                                                         *)
(*  - Part 1 models the position representation: bitboards as sets of      *)
(*    squares, the pseudo-legal move generator (movegen.rs), make_move     *)
(*    (make_move.rs), the Zobrist hash (zobrist.rs) and the controller's   *)
(*    `move <uci>` command (engine.rs).                                    *)
(*  - Part 2 models the controller / search-worker pair (engine.rs,        *)
(*    search.rs): the two channels, the time budget, iterative deepening   *)
(*    and negamax with its stop polling, run frame by frame so that the    *)
(*    controller can interleave with the worker.                           *)
(*  - Part 3 studies single functions (the MoveList iterator, perft, the   *)
(*    static exchange evaluation, the time budget, castling generation)    *)
(*    on inputs drawn from bounded sets.                                   *)
(*                                                                         *)
(* A bitboard is the set of its set bits (squares 0..63, 0 = a8,           *)
(* 63 = h1); XOR is the symmetric difference.  A Zobrist hash is the set   *)
(* of table indices XORed into it an odd number of times: two hashes       *)
(* built from the same index set are equal for every table, and two        *)
(* built from different index sets differ for all but a 2^-64 fraction of  *)
(* the random tables the program draws at start-up.                        *)
(***************************************************************************)
EXTENDS Integers, Sequences, FiniteSets, TLC

VARIABLES
    position,       \* Engine.position under SpecPos (a chess Position)
    lastCmd,        \* the command the controller processed in the last step
    prevPosition,   \* Engine.position before that command
    nMoves,         \* number of make_move calls so far (bounded by MaxMoves)
    engine,         \* the Engine struct under SpecEngine
    cpc,            \* where the controller is in the body of Engine::run's loop
    now,            \* the wall clock, in ms
    search_ch,      \* the control channel (search_tx -> search_rx)
    info_ch,        \* the info channel (info_tx -> info_rx)
    worker,         \* the search thread: its position in iterative_deepening
    ghost,          \* history of the run, read only by the properties
    movelist,       \* a MoveList being iterated (SpecMoveList)
    call,           \* the arguments of the function under study
    result          \* what that function returned

posVars == <<position, lastCmd, prevPosition, nMoves>>
engVars == <<engine, cpc, now, search_ch, info_ch, worker, ghost>>
auxVars == <<movelist, call, result>>
vars == <<position, lastCmd, prevPosition, nMoves,
          engine, cpc, now, search_ch, info_ch, worker, ghost,
          movelist, call, result>>

----------------------------------------------------------------------------
(* Option<T> *)
None == <<>>
Some(x) == <<x>>
Unwrap(o) == o[1]

(* Colour *)
White == 0
Black == 1
Not(c) == 1 - c

(* Piece, with its index (impl From<Piece> for usize) *)
Pawn(c)   == 6 * c
Knight(c) == 6 * c + 1
Bishop(c) == 6 * c + 2
Rook(c)   == 6 * c + 3
Queen(c)  == 6 * c + 4
King(c)   == 6 * c + 5
PieceKind(p) == p % 6
PieceColour(p) == p \div 6
iter_colour(c) == <<Pawn(c), Knight(c), Bishop(c), Rook(c), Queen(c), King(c)>>

(* impl Display for Piece: upper case for White, lower case for Black *)
PieceLetter(p) ==
    <<"P", "N", "B", "R", "Q", "K", "p", "n", "b", "r", "q", "k">>[p + 1]

(* Square *)
Squares == 0 .. 63
A8 == 0
D8 == 3
E8 == 4
F8 == 5
G8 == 6
H8 == 7
A1 == 56
C1 == 58
D1 == 59
E1 == 60
F1 == 61
G1 == 62
H1 == 63
C8 == 2
rank(sq) == sq \div 8
file(sq) == sq % 8
SquareAdd(sq, i) == IF sq + i \in Squares THEN Some(sq + i) ELSE None
(* impl Display for Square: file letter, then 8 - rank *)
SquareString(sq) == <<file(sq), 8 - rank(sq)>>

(* Bitboard *)
A_FILE == {s \in Squares : file(s) = 0}
B_FILE == {s \in Squares : file(s) = 1}
G_FILE == {s \in Squares : file(s) = 6}
H_FILE == {s \in Squares : file(s) = 7}
Xor(a, b) == (a \ b) \cup (b \ a)
Shl(bb, n) == {s + n : s \in bb} \cap Squares
Shr(bb, n) == {s - n : s \in bb} \cap Squares
intersects(a, b) == a \cap b # {}
Min(S) == CHOOSE x \in S : \A y \in S : x <= y
get_lsb(bb) == IF bb = {} THEN None ELSE Some(Min(bb))

(* Iterator for Bitboard: the squares in ascending order *)
RECURSIVE BitboardIter(_)
BitboardIter(bb) ==
    IF bb = {} THEN <<>> ELSE <<Min(bb)>> \o BitboardIter(bb \ {Min(bb)})

RECURSIVE Flatten(_)
Flatten(ss) == IF ss = <<>> THEN <<>> ELSE Head(ss) \o Flatten(Tail(ss))

(* CastlingFlags, with bits() *)
CastlingFlags == {"WK", "WQ", "BK", "BQ"}
CastlingBit(f) == CASE f = "WK" -> 1 [] f = "WQ" -> 2 [] f = "BK" -> 4 [] f = "BQ" -> 8
RECURSIVE SumBits(_)
SumBits(fs) ==
    IF fs = {} THEN 0
    ELSE LET f == CHOOSE x \in fs : TRUE IN CastlingBit(f) + SumBits(fs \ {f})
CastlingBits(fs) == SumBits(fs)

----------------------------------------------------------------------------
(* movegen.rs: attack sets *)

king_attacks(sq) ==
    LET king == {sq} IN
         (Shl(king, 7) \ H_FILE)
    \cup Shl(king, 8)
    \cup (Shl(king, 9) \ A_FILE)
    \cup (Shl(king, 1) \ A_FILE)
    \cup (Shr(king, 7) \ A_FILE)
    \cup Shr(king, 8)
    \cup (Shr(king, 9) \ H_FILE)
    \cup (Shr(king, 1) \ H_FILE)

knight_attacks(sq) ==
    LET knight == {sq} IN
         ((Shl(knight, 6) \ H_FILE) \ G_FILE)
    \cup (Shl(knight, 15) \ H_FILE)
    \cup (Shl(knight, 17) \ A_FILE)
    \cup ((Shl(knight, 10) \ A_FILE) \ B_FILE)
    \cup ((Shr(knight, 6) \ A_FILE) \ B_FILE)
    \cup (Shr(knight, 15) \ A_FILE)
    \cup (Shr(knight, 17) \ H_FILE)
    \cup ((Shr(knight, 10) \ H_FILE) \ G_FILE)

pawn_attacks(sq, side) ==
    LET pawn == {sq} IN
    IF side = White
    THEN (Shr(pawn, 7) \ A_FILE) \cup (Shr(pawn, 9) \ H_FILE)
    ELSE (Shl(pawn, 7) \ H_FILE) \cup (Shl(pawn, 9) \ A_FILE)

pawn_pushes(sq, side) ==
    LET direction == IF side = White THEN -8 ELSE 8
        t == SquareAdd(sq, direction)
    IN  IF t = None THEN {} ELSE {Unwrap(t)}

signum(d) == IF d > 0 THEN 1 ELSE IF d < 0 THEN -1 ELSE 0

(* one ray of bishop_attacks: stop when the rank does not change by one *)
RECURSIVE BishopRay(_, _, _, _)
BishopRay(to_sq, prev_rank, direction, blockers) ==
    IF to_sq = None THEN {}
    ELSE LET sq == Unwrap(to_sq) IN
         IF rank(sq) - prev_rank # signum(direction) THEN {}
         ELSE {sq} \cup (IF sq \in blockers THEN {}
                         ELSE BishopRay(SquareAdd(sq, direction), rank(sq),
                                        direction, blockers))

bishop_attacks(from_sq, blockers) ==
    UNION {BishopRay(SquareAdd(from_sq, d), rank(from_sq), d, blockers)
           : d \in {9, 7, -9, -7}}

(* one ray of rook_attacks: stop when neither rank nor file is the origin's *)
RECURSIVE RookRay(_, _, _, _)
RookRay(to_sq, from_sq, direction, blockers) ==
    IF to_sq = None THEN {}
    ELSE LET sq == Unwrap(to_sq) IN
         IF rank(from_sq) # rank(sq) /\ file(from_sq) # file(sq) THEN {}
         ELSE {sq} \cup (IF sq \in blockers THEN {}
                         ELSE RookRay(SquareAdd(sq, direction), from_sq,
                                      direction, blockers))

rook_attacks(from_sq, blockers) ==
    UNION {RookRay(SquareAdd(from_sq, d), from_sq, d, blockers)
           : d \in {1, -1, 8, -8}}

----------------------------------------------------------------------------
(* position.rs *)

occupied(pos) == pos.occupancy[White] \cup pos.occupancy[Black]

(* the first of the twelve bitboards that holds sq *)
piece_on(pos, sq) ==
    LET hits == {p \in 0 .. 11 : sq \in pos.pieces[p]}
    IN  IF hits = {} THEN None ELSE Some(Min(hits))

----------------------------------------------------------------------------
(* zobrist.rs: the index of each code in the 761-entry table *)
PAWN_OFFSET == 64 * 10
CASTLING_OFFSET == PAWN_OFFSET + 48 * 2
EN_PASSANT_OFFSET == CASTLING_OFFSET + 16
TURN_OFFSET == EN_PASSANT_OFFSET + 8

ZobristPiece(piece, sq) ==
    IF piece = Pawn(White) THEN PAWN_OFFSET + sq - 8
    ELSE IF piece = Pawn(Black) THEN PAWN_OFFSET + 48 + sq - 8
    ELSE piece * 64 + sq
ZobristCastling(castling) == CASTLING_OFFSET + CastlingBits(castling)
ZobristEnPassant(sq) == EN_PASSANT_OFFSET + file(sq)
ZobristTurn == TURN_OFFSET

(* hash ^= code *)
HashXor(hash, idx) == Xor(hash, {idx})

RECURSIVE HashXorAll(_, _)
HashXorAll(hash, idxs) ==
    IF idxs = <<>> THEN hash ELSE HashXorAll(HashXor(hash, Head(idxs)), Tail(idxs))

gen_zobrist_hash(pos) ==
    LET codes == Flatten([i \in 1 .. 12 |->
                    LET bb == BitboardIter(pos.pieces[i - 1])
                    IN  [k \in 1 .. Len(bb) |-> ZobristPiece(i - 1, bb[k])]])
        h1 == HashXorAll({}, codes)
        h2 == HashXor(h1, ZobristCastling(pos.castling))
        h3 == IF pos.en_passant # None
              THEN HashXor(h2, ZobristEnPassant(Unwrap(pos.en_passant))) ELSE h2
    IN  IF pos.turn = White THEN HashXor(h3, ZobristTurn) ELSE h3

----------------------------------------------------------------------------
(* movegen.rs: Move, MoveKind and the pseudo-legal generator.  A MoveList   *)
(* is the sequence of the moves pushed, in push order.  The payload of a    *)
(* kind is <<captured>>, <<promoted>>, <<promoted, captured>> or, for       *)
(* Castling, <<bits of the flag>>.                                          *)

Move(from, to, piece, kind, payload) ==
    [from |-> from, to |-> to, piece |-> piece, kind |-> kind,
     payload |-> payload, sort_score |-> 0]

promotables(c) == <<Queen(c), Rook(c), Bishop(c), Knight(c)>>
backranks == (0 .. 7) \cup (56 .. 63)

(* impl Display for Move: from, to, then the promoted Piece's own letter *)
MoveString(mv) ==
    SquareString(mv.from) \o SquareString(mv.to)
    \o (IF mv.kind \in {"Promotion", "PromotionCapture"}
        THEN <<PieceLetter(mv.payload[1])>> ELSE <<"">>)

is_sq_attacked_by(pos, sq, side) ==
    \/ intersects(pawn_attacks(sq, Not(side)), pos.pieces[Pawn(side)])
    \/ intersects(knight_attacks(sq), pos.pieces[Knight(side)])
    \/ intersects(king_attacks(sq), pos.pieces[King(side)])
    \/ intersects(bishop_attacks(sq, occupied(pos)),
                  pos.pieces[Bishop(side)] \cup pos.pieces[Queen(side)])
    \/ intersects(rook_attacks(sq, occupied(pos)),
                  pos.pieces[Rook(side)] \cup pos.pieces[Queen(side)])

(* the attack set of `piece` on `from`, as both generators compute it *)
PieceAttacks(pos, piece, from) ==
    LET occ == occupied(pos)
        k == PieceKind(piece)
    IN  CASE k = 0 -> pawn_attacks(from, PieceColour(piece))
          [] k = 1 -> knight_attacks(from)
          [] k = 2 -> bishop_attacks(from, occ)
          [] k = 3 -> rook_attacks(from, occ)
          [] k = 4 -> bishop_attacks(from, occ) \cup rook_attacks(from, occ)
          [] k = 5 -> king_attacks(from)

gen_en_passant(pos) ==
    IF pos.en_passant = None THEN <<>>
    ELSE LET to == Unwrap(pos.en_passant)
             froms == BitboardIter(pawn_attacks(to, Not(pos.turn))
                                   \cap pos.pieces[Pawn(pos.turn)])
         IN  [k \in 1 .. Len(froms) |->
                Move(froms[k], to, Pawn(pos.turn), "EnPassant", <<>>)]

CapturesFrom(pos, piece, from) ==
    LET tos == BitboardIter(PieceAttacks(pos, piece, from)
                            \cap pos.occupancy[Not(pos.turn)])
    IN  Flatten([k \in 1 .. Len(tos) |->
          LET to == tos[k]
              captured == Unwrap(piece_on(pos, to))
              c == PieceColour(piece)
          IN  IF PieceKind(piece) = 0 /\ to \in backranks
              THEN [j \in 1 .. 4 |->
                      Move(from, to, piece, "PromotionCapture",
                           <<promotables(c)[j], captured>>)]
              ELSE <<Move(from, to, piece, "Capture", <<captured>>)>>])

gen_captures(pos) ==
    gen_en_passant(pos)
    \o Flatten([i \in 1 .. 6 |->
         LET piece == iter_colour(pos.turn)[i]
             froms == BitboardIter(pos.pieces[piece])
         IN  Flatten([k \in 1 .. Len(froms) |-> CapturesFrom(pos, piece, froms[k])])])

gen_double_pawn_pushes(pos, c, from) ==
    IF c = White /\ from \in 48 .. 55
    THEN LET path == Shr({from}, 8) \cup Shr(Shr({from}, 8), 8)
         IN  IF intersects(occupied(pos), path) THEN <<>>
             ELSE <<Move(from, from - 16, Pawn(c), "DoublePawnPush", <<>>)>>
    ELSE IF c = Black /\ from \in 8 .. 15
    THEN LET path == Shl({from}, 8) \cup Shl(Shl({from}, 8), 8)
         IN  IF intersects(occupied(pos), path) THEN <<>>
             ELSE <<Move(from, from + 16, Pawn(c), "DoublePawnPush", <<>>)>>
    ELSE <<>>

CastlingMove_Origin(pos, flag, between, k1, k2, k3, from, to, c) ==
    IF /\ flag \in pos.castling
       /\ ~intersects(occupied(pos), between)
       /\ ~is_sq_attacked_by(pos, k3, Not(c))
    THEN <<Move(from, to, King(c), "Castling", <<CastlingBit(flag)>>)>>
    ELSE <<>>
CastlingMove(pos, flag, between, k1, k2, k3, from, to, c) ==
    IF /\ flag \in pos.castling
       /\ ~intersects(occupied(pos), between)
       /\ ~is_sq_attacked_by(pos, k1, Not(c))
       /\ ~is_sq_attacked_by(pos, k2, Not(c))
       /\ ~is_sq_attacked_by(pos, k3, Not(c))
    THEN <<Move(from, to, King(c), "Castling", <<CastlingBit(flag)>>)>>
    ELSE <<>>

gen_castling(pos) ==
    IF pos.castling = {} THEN <<>>
    ELSE IF pos.turn = White
    THEN    CastlingMove(pos, "WK", {61, 62}, F1, G1, E1, E1, G1, White)
         \o CastlingMove(pos, "WQ", {57, 58, 59}, D1, C1, E1, E1, C1, White)
    ELSE    CastlingMove(pos, "BK", {5, 6}, F8, G8, E8, E8, G8, Black)
         \o CastlingMove(pos, "BQ", {1, 2, 3}, D8, C8, E8, E8, C8, Black)

QuietsFrom(pos, piece, from) ==
    LET c == PieceColour(piece)
        isPawn == PieceKind(piece) = 0
        doubles == IF isPawn THEN gen_double_pawn_pushes(pos, c, from) ELSE <<>>
        bb == (IF isPawn THEN pawn_pushes(from, c)
               ELSE PieceAttacks(pos, piece, from)) \ occupied(pos)
        tos == BitboardIter(bb)
    IN  doubles \o
        (IF isPawn /\ intersects(bb, backranks)
         THEN [j \in 1 .. 4 |->
                 Move(from, Unwrap(get_lsb(bb)), piece, "Promotion",
                      <<promotables(c)[j]>>)]
         ELSE [k \in 1 .. Len(tos) |-> Move(from, tos[k], piece, "Quiet", <<>>)])

gen_quiet_moves(pos) ==
    gen_castling(pos)
    \o Flatten([i \in 1 .. 6 |->
         LET piece == iter_colour(pos.turn)[i]
             froms == BitboardIter(pos.pieces[piece])
         IN  Flatten([k \in 1 .. Len(froms) |-> QuietsFrom(pos, piece, froms[k])])])

gen_moves(pos) == gen_captures(pos) \o gen_quiet_moves(pos)

(* pieces[King(side)].get_lsb().expect("missing king") *)
HasKing(pos, side) == pos.pieces[King(side)] # {}
is_check(pos, side) ==
    is_sq_attacked_by(pos, Unwrap(get_lsb(pos.pieces[King(side)])), Not(side))

----------------------------------------------------------------------------
(* make_move.rs *)

(* the rook's from|to mask and colour of a Castling(flag) move *)
CastlingRook(bits) ==
    CASE bits = 1 -> [from_to |-> {F1, H1}, c |-> White]
      [] bits = 2 -> [from_to |-> {D1, A1}, c |-> White]
      [] bits = 4 -> [from_to |-> {F8, H8}, c |-> Black]
      [] bits = 8 -> [from_to |-> {D8, A8}, c |-> Black]

(* the match on mv.kind (lines 29-98), applied to the position p *)
ApplyKind(p, mv) ==
    LET turn == p.turn
        to_bb == {mv.to}
    IN  CASE mv.kind = "Quiet" ->
               [p EXCEPT !.hash = HashXor(@, ZobristPiece(mv.piece, mv.to))]
          [] mv.kind = "Capture" ->
               LET cap == mv.payload[1] IN
               [p EXCEPT !.pieces[cap] = Xor(@, to_bb),
                         !.halfmove = 0,
                         !.last_irreversible = p.ply,
                         !.occupancy[Not(turn)] = Xor(@, to_bb),
                         !.hash = HashXor(@, ZobristPiece(cap, mv.to))]
          [] mv.kind = "Promotion" ->
               LET q == mv.payload[1]
                   a == [p EXCEPT !.pieces[mv.piece] = Xor(@, to_bb)]
               IN  [a EXCEPT !.pieces[q] = Xor(@, to_bb),
                             !.hash = HashXor(@, ZobristPiece(q, mv.to))]
          [] mv.kind = "PromotionCapture" ->
               LET p1 == mv.payload[1]
                   p2 == mv.payload[2]
                   a == [p EXCEPT !.pieces[mv.piece] = Xor(@, to_bb)]
                   b == [a EXCEPT !.pieces[p1] = Xor(@, to_bb)]
                   c == [b EXCEPT !.pieces[p2] = Xor(@, to_bb)]
               IN  [c EXCEPT !.occupancy[Not(turn)] = Xor(@, to_bb),
                             !.hash = HashXor(HashXor(@, ZobristPiece(p1, mv.to)),
                                              ZobristPiece(p2, mv.to))]
          [] mv.kind = "DoublePawnPush" ->
               LET ep == IF turn = White THEN SquareAdd(mv.from, -8)
                         ELSE SquareAdd(mv.from, 8)
               IN  [p EXCEPT !.en_passant = ep,
                             !.hash = HashXor(HashXor(@, ZobristPiece(mv.piece, mv.to)),
                                              ZobristEnPassant(Unwrap(ep)))]
          [] mv.kind = "EnPassant" ->
               LET captured == rank(mv.from) * 8 + file(mv.to) IN
               [p EXCEPT !.occupancy[Not(turn)] = @ \ {captured},
                         !.pieces[Pawn(Not(turn))] = @ \ {captured},
                         !.hash = HashXor(@, ZobristPiece(mv.piece, mv.to))]
          [] mv.kind = "Castling" ->
               LET r == CastlingRook(mv.payload[1])
                   sqs == BitboardIter(r.from_to)
                   a == [p EXCEPT !.pieces[Rook(r.c)] = Xor(@, r.from_to),
                                  !.occupancy[r.c] = Xor(@, r.from_to),
                                  !.hash = HashXor(@, ZobristPiece(mv.piece, mv.to))]
               IN  [a EXCEPT !.hash = HashXorAll(@, [k \in 1 .. Len(sqs) |->
                                                       ZobristPiece(Rook(r.c), sqs[k])]),
                             !.last_irreversible = a.ply]

(* lines 106-121: a move touching a corner square drops that right *)
DropCornerRight_FromOnly(p, from_to_bb, corner, flag) ==
    IF Min(from_to_bb) = corner /\ flag \in p.castling
    THEN [p EXCEPT !.castling = @ \ {flag}, !.last_irreversible = p.ply]
    ELSE p
DropCornerRight(p, from_to_bb, corner, flag) ==
    IF intersects(from_to_bb, {corner}) /\ flag \in p.castling
    THEN [p EXCEPT !.castling = @ \ {flag}, !.last_irreversible = p.ply]
    ELSE p

make_move(pos, mv) ==
    LET from_to_bb == {mv.from} \cup {mv.to}
        s0 == [pos EXCEPT !.halfmove = (@ + 1) % 256,
                          !.ply = (@ + 1) % 256,
                          !.en_passant = None]
        s1 == [s0 EXCEPT !.pieces[mv.piece] = Xor(@, from_to_bb),
                         !.occupancy[pos.turn] = Xor(@, from_to_bb),
                         !.hash = HashXor(@, ZobristPiece(mv.piece, mv.from))]
        \* line 25 reads en_passant after line 15 has cleared it
        s2 == IF s1.en_passant # None
              THEN [s1 EXCEPT !.hash = HashXor(@, ZobristEnPassant(Unwrap(s1.en_passant)))]
              ELSE s1
        s3 == ApplyKind(s2, mv)
        s4 == IF PieceKind(mv.piece) = 5
              THEN IF PieceColour(mv.piece) = White
                   THEN [s3 EXCEPT !.castling = @ \ {"WK", "WQ"}]
                   ELSE [s3 EXCEPT !.castling = @ \ {"BK", "BQ"}]
              ELSE s3
        s5 == DropCornerRight(s4, from_to_bb, H1, "WK")
        s6 == DropCornerRight(s5, from_to_bb, A1, "WQ")
        s7 == DropCornerRight(s6, from_to_bb, H8, "BK")
        s8 == DropCornerRight(s7, from_to_bb, A8, "BQ")
        s9 == IF PieceKind(mv.piece) = 0
              THEN [s8 EXCEPT !.halfmove = 0, !.last_irreversible = s8.ply]
              ELSE s8
    IN  [s9 EXCEPT !.turn = Not(pos.turn)]

find_algebraic_move(pos, mv_str) ==
    LET moves == gen_moves(pos)
        hits == {i \in 1 .. Len(moves) : MoveString(moves[i]) = mv_str}
    IN  IF hits = {} THEN None ELSE Some(moves[Min(hits)])

----------------------------------------------------------------------------
(* fen.rs: read_fen after the six field parsers have run.  `board` is the   *)
(* set of <<piece, square>> pairs the board field places.                   *)

PositionNew ==
    [pieces |-> [p \in 0 .. 11 |-> {}], occupancy |-> [c \in 0 .. 1 |-> {}],
     turn |-> White, castling |-> {}, en_passant |-> None, halfmove |-> 0,
     ply |-> 0, hash |-> {}, last_irreversible |-> 0]

read_fen(board, turn, castling, ep, halfmove, fullmove) ==
    LET pieces == [p \in 0 .. 11 |-> {x[2] : x \in {y \in board : y[1] = p}}]
        parsed == [PositionNew EXCEPT
                     !.pieces = pieces, !.turn = turn, !.castling = castling,
                     !.en_passant = ep, !.halfmove = halfmove,
                     !.ply = IF turn = White THEN fullmove * 2 - 2 ELSE fullmove * 2 - 1]
        folded == [parsed EXCEPT
                     !.occupancy = [c \in 0 .. 1 |->
                        UNION {pieces[p] : p \in 6 * c .. 6 * c + 5}]]
    IN  [folded EXCEPT !.hash = gen_zobrist_hash(folded)]

----------------------------------------------------------------------------
(* Part 2: the controller and the search worker.                            *)

(* search.rs, engine.rs: constants *)
MAX_DEPTH == 64
PV_SIZE == (MAX_DEPTH * (MAX_DEPTH + 1)) \div 2
STALEMATE == 0
CHECKMATE == 1000000
UNRAVEL == CHECKMATE + 1
HALFMOVE_DRAW_COUNT == 100
I32_MAX == 2147483647
(* u32::MAX, the node budget of a `go` without `nodes`.  The model checker's *)
(* integers are 32-bit signed, so the largest of them stands for it; node   *)
(* counts of the games searched stay far below either value and never wrap. *)
U32_MAX == 2147483647
CURRMOVE_WAIT_TIME == 3000

(* The worker polls the control channel when info.nodes is a multiple of    *)
(* 10_000.  The games searched here have a handful of nodes, so the period  *)
(* is scaled down to PollInterval: polls then fall, as in a full-size       *)
(* search, both before and after the root has raised alpha.                 *)
PollInterval == 2

(* bounds of the environment *)
MaxCmds == 2
MaxClock == 2

Abs(x) == IF x < 0 THEN -x ELSE x
MinOf(a, b) == IF a < b THEN a ELSE b

(* a fixed-size array with a default, kept as the map of its written cells *)
Get(arr, i, default) == IF i \in DOMAIN arr THEN arr[i] ELSE default
Put(arr, i, v) == [j \in DOMAIN arr \cup {i} |-> IF j = i THEN v ELSE arr[j]]
EmptyArray == [j \in {} |-> 0]

----------------------------------------------------------------------------
(* The game the worker searches.  The search reads a position only through  *)
(* gen_moves, make_move, is_check, evaluate and the fields hash, halfmove,  *)
(* ply, last_irreversible_ply and turn; here a position is a node of a      *)
(* fixed graph and its hash is the node.  Every move is a quiet non-pawn    *)
(* move, so mvv_lva is 0 and quiescence has no capture to try.              *)

(* A second kind of node is a chess position: the positions within two      *)
(* plies of the mate-in-one position, pseudo-legal moves included, so that  *)
(* the legality filter rejects some moves.  The node of a chess position is *)
(* TreeStride * e + 100 * i + j: reached from the root by its i-th          *)
(* pseudo-legal move and then the j-th of the reply (0: no move), under     *)
(* evaluator e; the replies to a move the filter rejects are left out.      *)
(* None of these positions has a capture.  What the search                  *)
(* reads of them is computed once, when the position is loaded, and kept in *)
(* `call`.                                                                  *)

(* 4k3/8/4K3/8/8/8/8/7R w - - *)
FenMateInOne ==
    read_fen({<<King(Black), 4>>, <<King(White), 20>>, <<Rook(White), 63>>},
             White, {}, None, 0, 1)
(* bound: the evaluators 1 .. NumEvaluators the search is run with *)
NumEvaluators == 5
TreeStride == 100000
IsTree(id) == id >= TreeStride
TreeEvaluator(id) == id \div TreeStride
TreeI(id) == (id % TreeStride) \div 100
TreeJ(id) == id % 100
TreeRoot(e) == TreeStride * e

(* the positions one and two plies from the root, by move index *)
TreeChildren(pos) ==
    LET moves == gen_moves(pos)
    IN  [k \in 1 .. Len(moves) |-> make_move(pos, moves[k])]

(* what the search reads of a position: the number of its pseudo-legal      *)
(* moves, is_check for either side, the side to move, and for evaluate the  *)
(* squares of the white rook and king                                       *)
TreeInfo(pos) ==
    [n |-> Len(gen_moves(pos)),
     in_check |-> is_check(pos, pos.turn),
     leaves_king |-> is_check(pos, Not(pos.turn)),
     turn |-> pos.turn,
     rook |-> Unwrap(get_lsb(pos.pieces[Rook(White)])),
     king |-> Unwrap(get_lsb(pos.pieces[King(White)]))]

TreeTable ==
    LET level1 == TreeChildren(FenMateInOne)
    IN  [root |-> TreeInfo(FenMateInOne),
         level1 |-> [i \in 1 .. Len(level1) |-> TreeInfo(level1[i])],
         level2 |-> [i \in 1 .. Len(level1) |->
                      LET level2 == TreeChildren(level1[i])
                      IN  IF is_check(level1[i], Not(level1[i].turn)) THEN <<>>
                          ELSE [j \in 1 .. Len(level2) |-> TreeInfo(level2[j])]]]

TreeLoaded == [name |-> "tree", tree |-> TreeTable]

TreeNode(id) ==
    IF TreeI(id) = 0 THEN call.tree.root
    ELSE IF TreeJ(id) = 0 THEN call.tree.level1[TreeI(id)]
    ELSE call.tree.level2[TreeI(id)][TreeJ(id)]

(* evaluate, for the side to move, with every value smaller in magnitude    *)
(* than CHECKMATE - 64: 1 is constant, 2 and 3 are as large as allowed and  *)
(* favour White and Black, 4 depends on where the white pieces stand, and   *)
(* 5 is as large as allowed against the rook standing on the eighth rank    *)
EvalBound == CHECKMATE - 65
Evaluator(e, node) ==
    LET sign == IF node.turn = White THEN 1 ELSE -1
    IN  CASE e = 1 -> 0
          [] e = 2 -> sign * EvalBound
          [] e = 3 -> -sign * EvalBound
          [] e = 4 -> sign * (((node.rook * 7 + node.king * 13) % 41) - 20)
          [] OTHER -> IF node.rook < 8 THEN -sign * EvalBound
                      ELSE sign * EvalBound

(* gen_moves: node 1 has three moves, each answered by a single move;       *)
(* node 10 has none; node 20 has one move, to node 21, which has none;      *)
(* node 0 is the empty board of Position::new(), which has none;           *)
(* node 30 has two moves, each answered by a single move, and its first     *)
(* move is the best one at depth 1 and at depth 2; the nodes from          *)
(* ChainFirst to ChainLast are a line of single pawn moves, longer than     *)
(* MAX_DEPTH; the nodes from QuietFirst to QuietLast are a line of single   *)
(* quiet moves of pieces                                                    *)
QuietFirst == 40
QuietLast == 49
ChainFirst == 1000
ChainLast == 1099
GameSucc(id) ==
    CASE IsTree(id) /\ TreeI(id) = 0 ->
             [k \in 1 .. TreeNode(id).n |-> id + 100 * k]
      [] IsTree(id) /\ TreeI(id) # 0 /\ TreeJ(id) = 0 ->
             [k \in 1 .. TreeNode(id).n |-> id + k]
      [] id = 1 -> <<2, 3, 4>>
      [] id = 2 -> <<5>>
      [] id = 3 -> <<6>>
      [] id = 4 -> <<7>>
      [] id = 20 -> <<21>>
      [] id = 30 -> <<31, 32>>
      [] id = 31 -> <<33>>
      [] id = 32 -> <<34>>
      [] id \in ChainFirst .. ChainLast - 1 -> <<id + 1>>
      [] id \in QuietFirst .. QuietLast - 1 -> <<id + 1>>
      [] OTHER -> <<>>

(* evaluate: the static score for the side to move *)
GameEval(id) ==
    CASE IsTree(id) -> Evaluator(TreeEvaluator(id), TreeNode(id))
      [] id = 2 -> -5
      [] id = 6 -> 10
      [] id = 31 -> -5
      [] id = 33 -> 3
      [] OTHER -> 0

(* is_check(pos.turn) in a position without moves: node 21 is checkmate,    *)
(* the others are stalemate                                                 *)
GameInCheck(id) ==
    IF IsTree(id) THEN TreeNode(id).in_check ELSE id = 21

(* is_check(prev.turn) after the move that leads to the node: whether the   *)
(* move left the mover's king attacked                                      *)
GameLeavesKing(id) ==
    IsTree(id) /\ TreeNode(id).leaves_king

(* whether the side to move has a king: is_check panics ("missing king")    *)
(* when it has none, as on the empty board                                  *)
GameHasKing(id) == id # 0

(* position.rs: Position::new, the empty board, whose hash is 0 *)
GamePositionNew ==
    [hash |-> 0, halfmove |-> 0, ply |-> 0, last_irreversible_ply |-> 0, turn |-> White]

GamePosition(id, halfmove) ==
    [hash |-> id, halfmove |-> halfmove, ply |-> 0,
     last_irreversible_ply |-> 0, turn |-> White]

GameMove(k) == [m |-> k, sort_score |-> 0]

game_gen_moves(pos) ==
    [k \in 1 .. Len(GameSucc(pos.hash)) |-> GameMove(k)]

(* whether the moves of a position are pawn moves *)
GamePawnMoves(id) == id \in ChainFirst .. ChainLast

(* make_move on a quiet move: of a pawn, which resets the halfmove clock    *)
(* and sets last_irreversible_ply to the new ply, or of another piece       *)
game_make_move(pos, mv) ==
    IF GamePawnMoves(pos.hash)
    THEN [pos EXCEPT !.hash = GameSucc(pos.hash)[mv.m],
                     !.halfmove = 0,
                     !.ply = (@ + 1) % 256,
                     !.last_irreversible_ply = (pos.ply + 1) % 256,
                     !.turn = Not(@)]
    ELSE [pos EXCEPT !.hash = GameSucc(pos.hash)[mv.m],
                     !.halfmove = (@ + 1) % 256,
                     !.ply = (@ + 1) % 256,
                     !.turn = Not(@)]

(* the positions a `position` command may have loaded before `go` *)
RootPositions ==
    {GamePosition(1, 0), GamePosition(1, HALFMOVE_DRAW_COUNT), GamePosition(10, 0),
     GamePosition(20, 0)}

(* interface.rs: SearchControl, as `go` builds it *)
SearchControl(depth, nodes, movetime, infinite) ==
    [nodes |-> nodes, depth |-> depth, movetime |-> movetime, wtime |-> 0,
     btime |-> 0, winc |-> 0, binc |-> 0, movestogo |-> 0, infinite |-> infinite]

(* the `go` commands tried: go infinite depth 3, go movetime 1 depth 1,     *)
(* go depth 2 nodes 1                                                       *)
GoControls ==
    {SearchControl(3, U32_MAX, 0, TRUE),
     SearchControl(1, U32_MAX, 1, FALSE),
     SearchControl(2, 1, 0, FALSE)}

----------------------------------------------------------------------------
(* search.rs: SearchInfo and its messages *)

SearchInfoNew(stop_nodes, history) ==
    [depth |-> 0, seldepth |-> 0, score |-> 0, nodes |-> 0,
     stop_nodes |-> stop_nodes, triangular_pv |-> EmptyArray,
     current_branch |-> EmptyArray, history |-> history, stop |-> FALSE]

(* the elapsed-time fields of the messages are left out *)
FullInfo(info) ==
    [type |-> "Full", depth |-> info.depth, seldepth |-> info.seldepth,
     score |-> info.score, nodes |-> info.nodes,
     pv |-> [i \in DOMAIN info.triangular_pv \cap (0 .. MAX_DEPTH - 1) |->
               info.triangular_pv[i]]]

CurrMoveInfo(info, mv, mv_num) ==
    [type |-> "CurrMove", depth |-> info.depth, mv |-> mv, mv_num |-> mv_num]

send_full(ch, info) == Append(ch, FullInfo(info))
send_currmove(ch, info, mv, mv_num) == Append(ch, CurrMoveInfo(info, mv, mv_num))

send_bestmove(ch, info) ==
    Append(ch, [type |-> "Done", mv |-> Get(info.triangular_pv, 0, None)])

RECURSIVE hoist_pv(_, _, _, _)
hoist_pv(pv, target, source, len) ==
    IF len = 0 \/ Get(pv, source, None) = None THEN pv
    ELSE hoist_pv(Put(pv, target, pv[source]), target + 1, source + 1, len - 1)

(* movegen.rs: MoveList::score; every move of the game is Quiet *)
mvv_lva(mv) == 0
ScoreMove(mv, ply, info) ==
    LET pv_mv == Get(info.triangular_pv, ply, None)
        bonus == IF pv_mv # None /\ Unwrap(pv_mv) = mv THEN 100 ELSE 0
    IN  [mv EXCEPT !.sort_score = @ + bonus + mvv_lva(mv)]
MoveListScore(moves, ply, info) ==
    [i \in 1 .. Len(moves) |-> ScoreMove(moves[i], ply, info)]

(* movegen.rs: Iterator for MoveList.  The list after next() has run with   *)
(* `curr` moves consumed: the move yielded is at index curr + 1.            *)
RECURSIVE SelectNext_Overwrite(_, _, _)
SelectNext_Overwrite(moves, c, i) ==
    IF i > Len(moves) THEN moves
    ELSE IF moves[i].sort_score > moves[c].sort_score
    THEN SelectNext_Overwrite([moves EXCEPT ![c] = moves[i]], c, i + 1)
    ELSE SelectNext_Overwrite(moves, c, i + 1)

RECURSIVE SelectNext(_, _, _)
SelectNext(moves, c, i) ==
    IF i > Len(moves) THEN moves
    ELSE IF moves[i].sort_score > moves[c].sort_score
    THEN SelectNext([moves EXCEPT ![i] = moves[c], ![c] = moves[i]], c, i + 1)
    ELSE SelectNext(moves, c, i + 1)
MoveListNext(moves, curr) == SelectNext(moves, curr + 1, curr + 2)

(* search.rs: detect_repetition *)
RECURSIVE CountRepetition(_, _, _, _, _)
CountRepetition(pos, history, is_root, ply, count) ==
    IF ply < pos.last_irreversible_ply THEN FALSE
    ELSE LET c == IF Get(history, ply, 0) = pos.hash THEN count + 1 ELSE count
         IN  IF c >= 2 \/ (c = 1 /\ ~is_root) THEN TRUE
             ELSE CountRepetition(pos, history, is_root, ply - 2, c)

detect_repetition(pos, history, is_root) ==
    IF pos.ply - pos.last_irreversible_ply < 4 THEN FALSE
    ELSE CountRepetition(pos, history, is_root, pos.ply, 0)

----------------------------------------------------------------------------
(* The search worker: iterative_deepening, negamax and quiescence_search    *)
(* run as a stack machine.  A frame holds the arguments and locals of one   *)
(* call; worker.ret holds the value the last call returned.                 *)

Frame(fn, alpha, beta, depth, ply, pv_idx) ==
    [fn |-> fn, stage |-> "enter", alpha |-> alpha, beta |-> beta,
     depth |-> depth, ply |-> ply, pv_idx |-> pv_idx, moves |-> <<>>,
     curr |-> 0, legal_moves |-> 0, prev |-> None, mv |-> None]

WorkerNone ==
    [pc |-> "none", pos |-> GamePosition(1, 0), root |-> GamePosition(1, 0),
     stop_depth |-> 0, stop_nodes |-> 0, history |-> EmptyArray, depth |-> 0,
     info |-> SearchInfoNew(0, EmptyArray), stack |-> <<>>, ret |-> None,
     returned |-> [branch |-> "none", frame |-> Frame("none", 0, 0, 0, 0, 0), value |-> 0]]

Top(w) == w.stack[Len(w.stack)]
SetTop(w, f) == [w EXCEPT !.stack[Len(w.stack)] = f]

(* `return v` of the call on top of the stack *)
Return(w, v) ==
    [w EXCEPT !.stack = SubSeq(@, 1, Len(@) - 1),
              !.ret = Some(v),
              !.pc = IF Len(w.stack) = 1 THEN "iterend" ELSE "search"]

(* `return v`, noting the call that returned and the statement it          *)
(* returned through                                                         *)
ReturnVia(w, v, branch) ==
    [Return(w, v) EXCEPT !.returned = [branch |-> branch, frame |-> Top(w), value |-> v]]

(* negamax: the value returned when no move of the list was legal *)
NoLegalMoveValue_Swapped(in_check, ply) ==
    IF in_check THEN STALEMATE ELSE -CHECKMATE + ply
NoLegalMoveValue(in_check, ply) ==
    IF in_check THEN -CHECKMATE + ply ELSE STALEMATE

(* the first two conjuncts of the poll at the head of negamax and of        *)
(* quiescence_search                                                        *)
Polls(info) == info.depth > 1 /\ info.nodes % PollInterval = 0

SeeDepth(info, ply) ==
    IF ply % 256 > info.seldepth THEN [info EXCEPT !.seldepth = ply % 256] ELSE info

(* search.rs: iterative_deepening, the drain of the control channel and     *)
(* SearchInfo::new                                                          *)
W_Drain ==
    /\ worker.pc = "drain"
    /\ search_ch' = <<>>
    /\ worker' = [worker EXCEPT !.pc = "iter", !.depth = 1,
                    !.info = SearchInfoNew(worker.stop_nodes, worker.history)]
    /\ ghost' = [ghost EXCEPT !.drained = search_ch]
    /\ UNCHANGED <<posVars, auxVars, engine, cpc, now, info_ch>>

(* the head of the `for depth in 1..=stop_depth` loop and the call of the   *)
(* root negamax                                                             *)
W_IterStart ==
    /\ worker.pc = "iter"
    /\ worker' =
         IF worker.depth > worker.stop_depth
         THEN [worker EXCEPT !.pc = "bestmove"]
         ELSE [worker EXCEPT !.pc = "search",
                 !.info.depth = worker.depth,
                 !.info.nodes = 0,
                 !.ret = None,
                 !.stack = <<Frame("negamax", -I32_MAX, I32_MAX, worker.depth, 0, 0)>>]
    /\ UNCHANGED <<posVars, auxVars, engine, cpc, now, search_ch, info_ch, ghost>>

(* negamax: next_pv_idx, the first index of the child's row *)
next_pv_idx_Short(f) == f.pv_idx + MAX_DEPTH - f.ply - 1
next_pv_idx(f) == f.pv_idx + MAX_DEPTH - f.ply

(* negamax from the seldepth update to the scoring of the move list *)
NegamaxBody(w) ==
    LET f == Top(w)
        info1 == SeeDepth(w.info, f.ply)
        w1 == [w EXCEPT !.info = info1]
    IN  IF w.pos.halfmove >= HALFMOVE_DRAW_COUNT
           \/ detect_repetition(w.pos, info1.history, f.ply < 2)
        THEN ReturnVia(w1, STALEMATE, "draw")
        ELSE IF f.depth = 0
        THEN SetTop(w1, [f EXCEPT !.fn = "quiescence_search"])
        ELSE SetTop(w1, [f EXCEPT !.stage = "loop",
                           !.moves = MoveListScore(game_gen_moves(w.pos), f.ply, info1)])

W_NegamaxEnter ==
    /\ worker.pc = "search"
    /\ Top(worker).fn = "negamax"
    /\ Top(worker).stage = "enter"
    /\ IF Polls(worker.info) /\ search_ch # <<>>
       THEN /\ search_ch' = Tail(search_ch)
            /\ worker' = ReturnVia([worker EXCEPT !.info.stop = TRUE], UNRAVEL, "poll")
       ELSE /\ search_ch' = search_ch
            /\ worker' = NegamaxBody(worker)
    /\ UNCHANGED <<posVars, auxVars, engine, cpc, now, info_ch, ghost>>

(* quiescence_search after its poll: the game has no captures, so the loop  *)
(* over captures is empty                                                   *)
QuiescenceBody(w) ==
    LET f == Top(w)
        w1 == [w EXCEPT !.info = SeeDepth(w.info, f.ply)]
        standing_pat == GameEval(w.pos.hash)
    IN  IF standing_pat >= f.beta THEN ReturnVia(w1, f.beta, "stand_pat")
        ELSE IF standing_pat > f.alpha THEN ReturnVia(w1, standing_pat, "quiescence")
        ELSE ReturnVia(w1, f.alpha, "quiescence")

W_QuiescenceEnter ==
    /\ worker.pc = "search"
    /\ Top(worker).fn = "quiescence_search"
    /\ IF Polls(worker.info) /\ search_ch # <<>>
       THEN /\ search_ch' = Tail(search_ch)
            /\ worker' = ReturnVia([worker EXCEPT !.info.stop = TRUE], UNRAVEL, "poll")
       ELSE /\ search_ch' = search_ch
            /\ worker' = QuiescenceBody(worker)
    /\ UNCHANGED <<posVars, auxVars, engine, cpc, now, info_ch, ghost>>

(* negamax: the next turn of `for mv in moves` up to the recursive call, or *)
(* the code after the loop                                                  *)
W_NegamaxNext ==
    /\ worker.pc = "search"
    /\ Top(worker).fn = "negamax"
    /\ Top(worker).stage = "loop"
    /\ LET f == Top(worker) IN
       IF f.curr >= Len(f.moves)
       THEN /\ worker' =
                 IF f.legal_moves = 0 /\ ~GameHasKing(worker.pos.hash)
                 THEN [worker EXCEPT !.pc = "panicked"]
                 ELSE IF f.legal_moves = 0
                 THEN ReturnVia(worker,
                                NoLegalMoveValue(GameInCheck(worker.pos.hash), f.ply),
                                "no_legal_move")
                 ELSE ReturnVia(worker, f.alpha, "alpha")
            /\ info_ch' = info_ch
       ELSE LET moves2 == MoveListNext(f.moves, f.curr)
                mv == moves2[f.curr + 1]
                prev == worker.pos
                next == game_make_move(prev, mv)
                info2 == [worker.info EXCEPT
                            !.current_branch = Put(@, f.ply, Some(mv)),
                            !.history = Put(@, prev.ply, prev.hash)]
                f2 == [f EXCEPT !.moves = moves2, !.curr = @ + 1,
                                !.legal_moves = @ + 1, !.prev = Some(prev),
                                !.mv = Some(mv), !.stage = "child"]
            IN  IF GameLeavesKing(next.hash)
                THEN /\ worker' = SetTop(worker, [f EXCEPT !.moves = moves2,
                                                          !.curr = @ + 1])
                     /\ info_ch' = info_ch
                ELSE IF f.ply >= MAX_DEPTH
                THEN (* current_branch[ply]: index out of bounds *)
                     /\ worker' = [SetTop(worker, [f EXCEPT !.moves = moves2,
                                                            !.curr = @ + 1,
                                                            !.mv = Some(mv)])
                                   EXCEPT !.pos = next, !.pc = "panicked"]
                     /\ info_ch' = info_ch
                ELSE
                /\ worker' = [SetTop(worker, f2) EXCEPT
                                !.pos = next,
                                !.info = info2,
                                !.ret = None,
                                !.stack = Append(@, Frame("negamax", -f.beta, -f.alpha,
                                                          f.depth - 1, f.ply + 1,
                                                          next_pv_idx(f)))]
                /\ info_ch' = IF f.ply = 0
                              THEN send_currmove(info_ch, info2, mv, f.legal_moves + 1)
                              ELSE info_ch
    /\ UNCHANGED <<posVars, auxVars, engine, cpc, now, search_ch, ghost>>

(* negamax: `*pos = prev` at the end of the loop body *)
RestoredPos_Kept(w, f) == [Unwrap(f.prev) EXCEPT !.halfmove = w.pos.halfmove]
RestoredPos(w, f) == Unwrap(f.prev)

(* the value a frame returns when it finds the search stopped or the node   *)
(* budget spent                                                             *)
AbortValue(alpha) == MinOf(Abs(alpha), UNRAVEL)

(* negamax: from the return of the recursive call to the end of the loop    *)
(* body                                                                     *)
W_NegamaxAfterChild ==
    /\ worker.pc = "search"
    /\ Top(worker).fn = "negamax"
    /\ Top(worker).stage = "child"
    /\ LET f == Top(worker)
           info == worker.info
           score == -Unwrap(worker.ret)
           info1 == [info EXCEPT !.nodes = @ + 1]
           info2 == [info1 EXCEPT !.triangular_pv =
                        hoist_pv(Put(@, f.pv_idx, f.mv), f.pv_idx + 1, next_pv_idx(f),
                                 MAX_DEPTH - f.ply - 1)]
       IN  worker' =
             IF info.nodes > info.stop_nodes \/ info.stop
             THEN ReturnVia(worker, AbortValue(f.alpha), "abort")
             ELSE IF score >= f.beta
             THEN ReturnVia([worker EXCEPT !.info = info1], f.beta, "beta")
             ELSE [SetTop(worker, [f EXCEPT !.stage = "loop",
                                     !.alpha = IF score > f.alpha THEN score ELSE @])
                   EXCEPT !.info = IF score > f.alpha THEN info2 ELSE info1,
                          !.pos = RestoredPos(worker, f),
                          !.ret = None]
    /\ ghost' = IF /\ ~(worker.info.nodes > worker.info.stop_nodes \/ worker.info.stop)
                   /\ -Unwrap(worker.ret) >= Top(worker).beta
                THEN [ghost EXCEPT !.betaCut = TRUE]
                ELSE ghost
    /\ UNCHANGED <<posVars, auxVars, engine, cpc, now, search_ch, info_ch>>

(* iterative_deepening: the loop body after the root negamax returned *)
W_IterEnd ==
    /\ worker.pc = "iterend"
    /\ LET info == [worker.info EXCEPT !.score = Unwrap(worker.ret)]
           breaks == \/ CHECKMATE - Abs(info.score) <= info.depth
                     \/ info.stop
                     \/ info.nodes >= info.stop_nodes
       IN  /\ info_ch' = IF info.score < UNRAVEL THEN send_full(info_ch, info) ELSE info_ch
           /\ worker' = [worker EXCEPT !.info = info, !.ret = None,
                           !.pc = IF breaks THEN "bestmove" ELSE "iter",
                           !.depth = @ + 1]
           /\ ghost' = IF info.stop THEN ghost
                       ELSE [ghost EXCEPT !.completedPv0 = Get(info.triangular_pv, 0, None)]
    /\ UNCHANGED <<posVars, auxVars, engine, cpc, now, search_ch>>

(* iterative_deepening: send_bestmove, after which the thread ends *)
W_SendBestmove ==
    /\ worker.pc = "bestmove"
    /\ info_ch' = send_bestmove(info_ch, worker.info)
    /\ worker' = [worker EXCEPT !.pc = "finished"]
    /\ UNCHANGED <<posVars, auxVars, engine, cpc, now, search_ch, ghost>>

----------------------------------------------------------------------------
(* The controller: one turn of the loop of Engine::run is a step at "input" *)
(* (try_recv on stdin and the command's handler), steps at "info"           *)
(* (receive_info, one message per step) and a step at "time".               *)

(* u8 addition: a panic (None) where the build checks overflow, the sum     *)
(* modulo 256 where it does not                                             *)
AddU8(a, b, overflow_checks) ==
    IF a + b > 255 /\ overflow_checks THEN None ELSE Some((a + b) % 256)

(* engine.rs: calculate_allowed_time; movestogo + 2 is computed in u8, and  *)
(* a division by zero panics in every build.  None is a panic.              *)
calculate_allowed_time(time, inc, movestogo, overflow_checks) ==
    LET m == IF movestogo = 0 THEN 40 ELSE movestogo
        divisor == AddU8(m, 2, overflow_checks)
    IN  IF divisor = None THEN None
        ELSE IF Unwrap(divisor) = 0 THEN None
        ELSE Some(time \div Unwrap(divisor))

(* engine.rs: set_search_limit; the engine it leaves *)
set_search_limit(eng, control, overflow_checks) ==
    IF control.infinite THEN eng
    ELSE LET time == IF eng.position.turn = White
                     THEN calculate_allowed_time(control.wtime, control.winc,
                              control.movestogo, overflow_checks)
                     ELSE calculate_allowed_time(control.btime, control.binc,
                              control.movestogo, overflow_checks)
         IN  IF time = None THEN [eng EXCEPT !.panicked = TRUE]
             ELSE IF control.movetime # 0
             THEN [eng EXCEPT !.max_time = control.movetime]
             ELSE [eng EXCEPT !.max_time = Unwrap(time)]

(* engine.rs: the guard at the head of Engine::search *)
AlreadySearching_Never(eng) == FALSE
AlreadySearching(eng) == eng.search_handle

EngineInit(pos) ==
    [position |-> pos, history |-> EmptyArray, search_handle |-> FALSE,
     max_time |-> 0, search_time |-> 0, nodes |-> 0, currmove_buffer |-> <<>>,
     panicked |-> FALSE]

(* what the properties compare before and after a command *)
Snapshot(eng, g) ==
    [search_handle |-> eng.search_handle, search_time |-> eng.search_time,
     max_time |-> eng.max_time, nSpawned |-> g.nSpawned]

StopMsg(origin) ==
    [origin |-> origin,
     search |-> IF engine.search_handle THEN ghost.nSpawned ELSE 0]

C_NoInput ==
    /\ cpc = "input"
    /\ ~engine.panicked
    /\ cpc' = "info"
    /\ UNCHANGED <<posVars, auxVars, engine, now, search_ch, info_ch, worker, ghost>>

(* Go(control) => self.search(control) *)
C_Go ==
    /\ cpc = "input"
    /\ ~engine.panicked
    /\ ghost.nCmds < MaxCmds
    /\ \E control \in GoControls, overflow_checks \in BOOLEAN :
         IF AlreadySearching(engine)
         THEN /\ ghost' = [ghost EXCEPT !.nCmds = @ + 1,
                             !.cmd = [name |-> "go", pre |-> Snapshot(engine, ghost),
                                      post |-> Snapshot(engine, ghost)]]
              /\ UNCHANGED <<engine, worker>>
         ELSE LET eng1 == [engine EXCEPT !.search_time = now, !.search_handle = TRUE]
                  eng2 == set_search_limit(eng1, control, overflow_checks)
                  g1 == [ghost EXCEPT !.nCmds = @ + 1,
                            !.nSpawned = @ + 1,
                            !.nWorkers = @ + 1,
                            !.control = control,
                            !.spawnedAfterJoin =
                                /\ @
                                /\ worker.pc = "none"
                                /\ \/ ghost.nSpawned = 0
                                   \/ /\ ghost.received # <<>>
                                      /\ ghost.received[Len(ghost.received)].type = "Done",
                            !.received = <<>>,
                            !.completedPv0 = None]
              IN  /\ engine' = eng2
                  /\ worker' = [WorkerNone EXCEPT !.pc = "drain",
                                  !.pos = engine.position,
                                  !.root = engine.position,
                                  !.stop_depth = control.depth,
                                  !.stop_nodes = control.nodes,
                                  !.history = engine.history]
                  /\ ghost' = [g1 EXCEPT !.cmd = [name |-> "go",
                                                   pre |-> Snapshot(engine, ghost),
                                                   post |-> Snapshot(eng2, g1)]]
    /\ cpc' = "info"
    /\ UNCHANGED <<posVars, auxVars, now, search_ch, info_ch>>

(* UCINewGame => self.position = Position::new() *)
C_UciNewGame ==
    /\ cpc = "input"
    /\ ~engine.panicked
    /\ ghost.nCmds < MaxCmds
    /\ engine' = [engine EXCEPT !.position = GamePositionNew]
    /\ ghost' = [ghost EXCEPT !.nCmds = @ + 1,
                   !.cmd = [name |-> "ucinewgame", pre |-> Snapshot(engine, ghost),
                            post |-> Snapshot(engine, ghost)]]
    /\ cpc' = "info"
    /\ UNCHANGED <<posVars, auxVars, now, search_ch, info_ch, worker>>

(* Stop => self.search_tx.send(SearchCommand::Stop) *)
C_Stop ==
    /\ cpc = "input"
    /\ ~engine.panicked
    /\ ghost.nCmds < MaxCmds
    /\ search_ch' = Append(search_ch, StopMsg("stop"))
    /\ ghost' = [ghost EXCEPT !.nCmds = @ + 1,
                   !.cmd = [name |-> "stop", pre |-> Snapshot(engine, ghost),
                            post |-> Snapshot(engine, ghost)]]
    /\ cpc' = "info"
    /\ UNCHANGED <<posVars, auxVars, engine, now, info_ch, worker>>

(* self.search_time.elapsed().as_millis() > CURRMOVE_WAIT_TIME.into() *)
CurrMoveDue_AtThreshold(eng, clock) == clock - eng.search_time >= CURRMOVE_WAIT_TIME
CurrMoveDue(eng, clock) == clock - eng.search_time > CURRMOVE_WAIT_TIME

(* engine.rs: receive_info, the handling of one message *)
HandleInfo(eng, msg) ==
    CASE msg.type = "Full" ->
           [eng EXCEPT !.nodes = @ + msg.nodes,
                       !.currmove_buffer = <<>>]
      [] msg.type = "CurrMove" ->
           IF CurrMoveDue(eng, now)
           THEN [eng EXCEPT !.currmove_buffer = <<>>]
           ELSE [eng EXCEPT !.currmove_buffer = Append(@, msg)]
      [] OTHER ->
           IF eng.search_handle
           THEN [eng EXCEPT !.search_handle = FALSE]
           ELSE [eng EXCEPT !.panicked = TRUE]

C_ReceiveInfo ==
    /\ cpc = "info"
    /\ ~engine.panicked
    /\ IF info_ch = <<>>
       THEN /\ cpc' = "time"
            /\ UNCHANGED <<engine, info_ch, worker, ghost>>
       ELSE LET msg == Head(info_ch)
                joins == msg.type = "Done" /\ engine.search_handle
            IN  /\ engine' = HandleInfo(engine, msg)
                /\ info_ch' = Tail(info_ch)
                /\ worker' = IF joins THEN [worker EXCEPT !.pc = "none"] ELSE worker
                /\ ghost' = [ghost EXCEPT !.received = Append(@, msg),
                               !.nWorkers = IF joins THEN @ - 1 ELSE @]
                /\ cpc' = "info"
    /\ UNCHANGED <<posVars, auxVars, now, search_ch>>

(* the time check at the end of the loop body of Engine::run *)
C_TimeCheck ==
    /\ cpc = "time"
    /\ ~engine.panicked
    /\ IF engine.max_time # 0 /\ now - engine.search_time > engine.max_time
       THEN /\ search_ch' = Append(search_ch, StopMsg("time"))
            /\ engine' = [engine EXCEPT !.max_time = 0]
            /\ ghost' = [ghost EXCEPT !.timeStopInfinite =
                           @ \/ (ghost.control.infinite
                                 /\ worker.pc \notin {"none", "finished", "panicked"})]
       ELSE UNCHANGED <<search_ch, engine, ghost>>
    /\ cpc' = "input"
    /\ UNCHANGED <<posVars, auxVars, now, info_ch, worker>>

(* the clock advances *)
Tick ==
    /\ now < MaxClock
    /\ now' = now + 1
    /\ UNCHANGED <<posVars, auxVars, engine, cpc, search_ch, info_ch, worker, ghost>>

GhostInit ==
    [nCmds |-> 0, nSpawned |-> 0, nWorkers |-> 0,
     control |-> SearchControl(0, 0, 0, FALSE),
     cmd |-> [name |-> "none", pre |-> Snapshot(EngineInit(GamePosition(1, 0)), [nSpawned |-> 0]),
              post |-> Snapshot(EngineInit(GamePosition(1, 0)), [nSpawned |-> 0])],
     spawnedAfterJoin |-> TRUE, received |-> <<>>, completedPv0 |-> None,
     drained |-> <<>>, timeStopInfinite |-> FALSE, betaCut |-> FALSE]

(* the engine after construction and a `position` command *)
EngInit ==
    /\ engine \in {EngineInit(pos) : pos \in RootPositions}
    /\ cpc = "input"
    /\ now = 0
    /\ search_ch = <<>>
    /\ info_ch = <<>>
    /\ worker = WorkerNone
    /\ ghost = GhostInit

EngIdle ==
    /\ engine = EngineInit(GamePosition(1, 0))
    /\ cpc = "input"
    /\ now = 0
    /\ search_ch = <<>>
    /\ info_ch = <<>>
    /\ worker = WorkerNone
    /\ ghost = GhostInit

EngNext ==
    \/ C_NoInput
    \/ C_Go
    \/ C_UciNewGame
    \/ C_Stop
    \/ C_ReceiveInfo
    \/ C_TimeCheck
    \/ Tick
    \/ W_Drain
    \/ W_IterStart
    \/ W_NegamaxEnter
    \/ W_QuiescenceEnter
    \/ W_NegamaxNext
    \/ W_NegamaxAfterChild
    \/ W_IterEnd
    \/ W_SendBestmove

(* the variables of the other parts, at rest *)
AuxIdle ==
    /\ movelist = [moves |-> <<>>, length |-> 0, curr |-> 0]
    /\ call = [name |-> "none"]
    /\ result = <<>>

PosIdle ==
    /\ position = PositionNew
    /\ lastCmd = [name |-> "none", arg |-> <<>>]
    /\ prevPosition = position
    /\ nMoves = 0

EngineSpecInit ==
    /\ EngInit
    /\ PosIdle
    /\ AuxIdle

SpecEngine == EngineSpecInit /\ [][EngNext]_vars

----------------------------------------------------------------------------
(* The positions the controller starts from under SpecPos.                  *)

(* 4k3/8/8/8/8/5n2/P7/4K2R w K - 0 1 : White is in check from the f3 knight *)
FenKnightCheck ==
    read_fen({<<King(White), E1>>, <<Rook(White), H1>>, <<Pawn(White), 48>>,
              <<King(Black), E8>>, <<Knight(Black), 45>>},
             White, {"WK"}, None, 0, 1)

(* 4k2r/6P1/8/8/3p4/8/4P3/4K3 w k - 0 1 : promotion, double push, en passant *)
FenPawns ==
    read_fen({<<King(White), E1>>, <<Pawn(White), 14>>, <<Pawn(White), 52>>,
              <<King(Black), E8>>, <<Rook(Black), H8>>, <<Pawn(Black), 35>>},
             White, {"BK"}, None, 0, 1)

(* 4k2r/8/8/8/8/8/8/R3K3 w Qk - 0 1 : castling on both sides *)
FenCastles ==
    read_fen({<<King(White), E1>>, <<Rook(White), A1>>,
              <<King(Black), E8>>, <<Rook(Black), H8>>},
             White, {"WQ", "BK"}, None, 0, 1)

StartPositions == {FenKnightCheck, FenPawns, FenCastles}

(* bound on the number of `move` commands *)
MaxMoves == 3

Range(seq) == {seq[i] : i \in 1 .. Len(seq)}

(* the UCI spelling of a move: the promotion letter in lower case *)
UciString(mv) ==
    SquareString(mv.from) \o SquareString(mv.to)
    \o (IF mv.kind \in {"Promotion", "PromotionCapture"}
        THEN <<PieceLetter(Knight(Black) - 1 + PieceKind(mv.payload[1]))>> ELSE <<"">>)

(* the strings a `move` command is tried with: every generated move in the  *)
(* engine's and in the UCI spelling, and a1a1, which is never generated     *)
MoveInputs(pos) ==
    {MoveString(m) : m \in Range(gen_moves(pos))}
    \cup {UciString(m) : m \in Range(gen_moves(pos))}
    \cup {SquareString(A1) \o SquareString(A1) \o <<"">>}

PosInit ==
    /\ position \in StartPositions
    /\ lastCmd = [name |-> "none", arg |-> <<>>]
    /\ prevPosition = position
    /\ nMoves = 0
    /\ EngIdle
    /\ AuxIdle

(* engine.rs, run: Move(mv_str) *)
EngineMove ==
    /\ nMoves < MaxMoves
    /\ \E mv_str \in MoveInputs(position) :
         LET found == find_algebraic_move(position, mv_str) IN
         /\ lastCmd' = [name |-> "move", arg |-> mv_str]
         /\ prevPosition' = position
         /\ position' = IF found # None THEN make_move(position, Unwrap(found))
                        ELSE position
         /\ nMoves' = nMoves + 1
    /\ UNCHANGED <<engVars, auxVars>>

PosNext == EngineMove

SpecPos == PosInit /\ [][PosNext]_vars

----------------------------------------------------------------------------
(* Properties of the position *)

OccupancyConsistent(pos) ==
    /\ pos.occupancy[White] = UNION {pos.pieces[p] : p \in 0 .. 5}
    /\ pos.occupancy[Black] = UNION {pos.pieces[p] : p \in 6 .. 11}
    /\ pos.occupancy[White] \cap pos.occupancy[Black] = {}

(* mv is generated in pos and does not leave the mover's king attacked *)
IsLegal(pos, mv) ==
    /\ HasKing(pos, pos.turn)
    /\ HasKing(pos, Not(pos.turn))
    /\ LET next == make_move(pos, mv) IN
       HasKing(next, pos.turn) /\ ~is_check(next, pos.turn)

IsLegalString(pos, mv_str) ==
    \E m \in Range(gen_moves(pos)) : MoveString(m) = mv_str /\ IsLegal(pos, m)

(* C1: in every position the controller reaches by make_move on generated   *)
(* moves, each colour's occupancy is the union of its six piece bitboards   *)
(* and the two occupancies are disjoint.                                    *)
C1_Occupancy == OccupancyConsistent(position)

(* C2: after every make_move the incrementally updated hash equals          *)
(* gen_zobrist_hash of the resulting position.                              *)
C2_HashIncremental == position.hash = gen_zobrist_hash(position)

(* C10: a `move` command whose move is not legal in the current position    *)
(* (pseudo-legal moves that leave the own king attacked included) leaves    *)
(* the position unchanged.                                                  *)
C10_IllegalMoveIgnored ==
    (lastCmd.name = "move" /\ ~IsLegalString(prevPosition, lastCmd.arg))
        => position = prevPosition

----------------------------------------------------------------------------
(* Properties of the controller and the worker *)

(* the messages the worker of the current search has sent so far *)
AllSent == ghost.received \o info_ch

DoneIndexes(msgs) == {i \in 1 .. Len(msgs) : msgs[i].type = "Done"}

SameMove(a, b) ==
    \/ a = None /\ b = None
    \/ a # None /\ b # None /\ Unwrap(a).m = Unwrap(b).m

(* the worker thread has ended, by returning or by a panic *)
WorkerEnded ==
    \/ worker.pc \in {"finished", "panicked"}
    \/ worker.pc = "none" /\ ghost.nSpawned > 0

(* C3: every search sends exactly one Done, and Done is its last message:   *)
(* at most one Done is among the messages of the search, nothing follows    *)
(* it, and the worker has ended exactly when Done has been sent.            *)
C3_DoneOnceLast ==
    /\ Cardinality(DoneIndexes(AllSent)) <= 1
    /\ \A i \in DoneIndexes(AllSent) : i = Len(AllSent)
    /\ WorkerEnded <=> DoneIndexes(AllSent) # {}

(* C4: at most one worker exists; a worker is spawned only after the        *)
(* previous one's Done was received and it was joined; a `go` processed     *)
(* while a worker is registered spawns nothing and leaves search_time and   *)
(* max_time as they were.                                                   *)
C4_OneWorker ==
    /\ ghost.nWorkers <= 1
    /\ ghost.spawnedAfterJoin
    /\ (ghost.cmd.name = "go" /\ ghost.cmd.pre.search_handle)
         => ghost.cmd.post = ghost.cmd.pre

(* a `go` arrived while the worker had finished but its Done was not yet    *)
(* consumed: the worker is still registered and nothing was spawned         *)
C4_Witness ==
    /\ ghost.cmd.name = "go"
    /\ ghost.cmd.pre.search_handle
    /\ ghost.nSpawned = 1
    /\ ghost.nWorkers = 1
    /\ worker.pc = "finished"
    /\ info_ch # <<>>
    /\ info_ch[Len(info_ch)].type = "Done"

(* C5: no Stop enqueued after the `go` that spawned the worker is discarded *)
(* by that worker's drain of the control channel.                           *)
C5_StopNotDrained ==
    \A i \in 1 .. Len(ghost.drained) : ghost.drained[i].search # ghost.nSpawned

(* C6: once the worker has observed Stop in the iteration of depth d, no    *)
(* Full message of depth d is sent, the loop is left, and the root negamax  *)
(* call returns at least UNRAVEL.                                           *)
C6_AbortedDepthSilent ==
    worker.info.stop =>
        /\ \A i \in 1 .. Len(AllSent) :
             AllSent[i].type = "Full" => AllSent[i].depth # worker.info.depth
        /\ worker.pc # "iter"
        /\ worker.pc = "iterend" => Unwrap(worker.ret) >= UNRAVEL

(* C7: the move of Done, for a search Stop cancelled in an iteration of     *)
(* depth >= 2, is the first PV move at the end of the last completed        *)
(* iteration.                                                               *)
C7_BestFromCompletedDepth ==
    \A i \in DoneIndexes(AllSent) :
        (worker.info.stop /\ worker.info.depth >= 2)
            => SameMove(AllSent[i].mv, ghost.completedPv0)

(* C8: Done carries a legal move of the root position when the root has a   *)
(* legal move, and None only when it has none.                              *)
C8_BestMoveExists ==
    \A i \in DoneIndexes(AllSent) :
        LET n == Len(GameSucc(worker.root.hash))
            mv == AllSent[i].mv
        IN  IF n > 0 THEN mv # None /\ Unwrap(mv).m \in 1 .. n
            ELSE mv = None

(* C9: the controller's time check enqueues no Stop while a search started  *)
(* by `go infinite` is running.                                             *)
C9_InfiniteNotTimed == ~ghost.timeStopInfinite

----------------------------------------------------------------------------
(* Part 3: single functions on bounded inputs.                              *)

(* The MoveList iterator (movegen.rs).  A list of up to MaxLen moves is     *)
(* pushed, with sort scores up to MaxScore and with MaxTag different moves  *)
(* per score, so that equal moves and equal scores occur; next() is then    *)
(* called until it returns None.                                            *)
MaxLen == 3
MaxScore == 2
MaxTag == 2

ListMoves == {[m |-> k, sort_score |-> s] : k \in 1 .. MaxTag, s \in 0 .. MaxScore}
PushedLists == UNION {[1 .. n -> ListMoves] : n \in 0 .. MaxLen}

(* MoveList::new followed by one push per move *)
MoveListOf(pushed) == [moves |-> pushed, length |-> Len(pushed), curr |-> 0]

MoveListInit ==
    /\ \E pushed \in PushedLists :
         /\ movelist = MoveListOf(pushed)
         /\ call = [name |-> "MoveList::next", pushed |-> pushed]
    /\ result = <<>>
    /\ PosIdle
    /\ EngIdle

(* Iterator::next; result collects the Option<Move> values returned *)
ML_Next ==
    /\ IF result = <<>> THEN TRUE ELSE result[Len(result)] # None
    /\ IF movelist.curr >= movelist.length
       THEN /\ result' = Append(result, None)
            /\ movelist' = movelist
       ELSE LET moves2 == MoveListNext(movelist.moves, movelist.curr)
            IN  /\ movelist' = [movelist EXCEPT !.moves = moves2, !.curr = @ + 1]
                /\ result' = Append(result, Some(moves2[movelist.curr + 1]))
    /\ UNCHANGED <<posVars, engVars, call>>

MoveListStep == ML_Next

SpecMoveList == MoveListInit /\ [][MoveListStep]_vars

(* the moves yielded so far and the moves still to come *)
Yielded == [i \in 1 .. movelist.curr |-> Unwrap(result[i])]
Remaining == SubSeq(movelist.moves, movelist.curr + 1, movelist.length)
Occurrences(seq, x) == Cardinality({i \in 1 .. Len(seq) : seq[i] = x})
Exhausted == result # <<>> /\ result[Len(result)] = None

(* C11: the moves yielded, together with those still in the list, are the   *)
(* moves pushed, each as often as it was pushed; the scores yielded never   *)
(* increase; and the iterator stops only when every pushed move was         *)
(* yielded.                                                                 *)
C11_SortedPermutation ==
    /\ \A x \in ListMoves :
         Occurrences(Yielded \o Remaining, x) = Occurrences(call.pushed, x)
    /\ \A i, j \in 1 .. movelist.curr :
         i < j => Yielded[i].sort_score >= Yielded[j].sort_score
    /\ Exhausted => /\ movelist.curr = Len(call.pushed)
                    /\ Len(result) = Len(call.pushed) + 1

(* a list pushed in increasing score order, with a repeated move, was       *)
(* iterated to exhaustion                                                   *)
C11_Witness ==
    /\ Exhausted
    /\ Len(call.pushed) = 3
    /\ call.pushed[1].sort_score < call.pushed[2].sort_score
    /\ call.pushed[2] = call.pushed[3]
    /\ Yielded[3] = call.pushed[1]

----------------------------------------------------------------------------
(* The search alone: a worker spawned on a root position with the history   *)
(* the `position` command built, running to its end with no command from    *)
(* the controller.                                                          *)
MaxSearchDepth == 2

GamePositionAt(id, halfmove, ply) ==
    [hash |-> id, halfmove |-> halfmove, ply |-> ply,
     last_irreversible_ply |-> 0, turn |-> White]

(* interface.rs, position: history[ply] holds the hash of the position      *)
(* before the move made at that ply.  The roots: node 1 reached again       *)
(* after four plies (one earlier occurrence), node 1 reached a third time   *)
(* after eight plies (two earlier occurrences), and the positions of part 2 *)
SearchRoots ==
    {[pos |-> GamePositionAt(1, 4, 4), history |-> Put(EmptyArray, 0, 1)],
     [pos |-> GamePositionAt(1, 8, 8), history |-> Put(Put(EmptyArray, 0, 1), 4, 1)],
     [pos |-> GamePosition(1, 0), history |-> EmptyArray],
     [pos |-> GamePosition(10, 0), history |-> EmptyArray],
     [pos |-> GamePosition(20, 0), history |-> EmptyArray],
     [pos |-> GamePositionNew, history |-> EmptyArray]}
    \cup {[pos |-> GamePosition(TreeRoot(e), 0), history |-> EmptyArray] :
             e \in 1 .. NumEvaluators}

(* the depths of `go depth`: one more than MaxSearchDepth on the chess      *)
(* position, whose tree the search leaves after depth 2                     *)
StopDepths(root) ==
    1 .. (IF IsTree(root.pos.hash) THEN MaxSearchDepth + 1 ELSE MaxSearchDepth)

(* the state right after Engine::search spawned the worker *)
SearchInit ==
    /\ \E root \in SearchRoots : \E stop_depth \in StopDepths(root) :
         /\ engine = [EngineInit(root.pos) EXCEPT !.history = root.history,
                                                  !.search_handle = TRUE]
         /\ worker = [WorkerNone EXCEPT !.pc = "drain",
                        !.pos = root.pos,
                        !.root = root.pos,
                        !.stop_depth = stop_depth,
                        !.stop_nodes = U32_MAX,
                        !.history = root.history]
         /\ call = IF IsTree(root.pos.hash) THEN TreeLoaded
                   ELSE [name |-> "none"]
    /\ ghost = [GhostInit EXCEPT !.nSpawned = 1, !.nWorkers = 1]
    /\ cpc = "input"
    /\ now = 0
    /\ search_ch = <<>>
    /\ info_ch = <<>>
    /\ PosIdle
    /\ movelist = [moves |-> <<>>, length |-> 0, curr |-> 0]
    /\ result = <<>>

SearchNext ==
    \/ W_Drain
    \/ W_IterStart
    \/ W_NegamaxEnter
    \/ W_QuiescenceEnter
    \/ W_NegamaxNext
    \/ W_NegamaxAfterChild
    \/ W_IterEnd
    \/ W_SendBestmove

SpecSearch == SearchInit /\ [][SearchNext]_vars

(* earlier occurrences of the position's hash among the same-side plies of  *)
(* its irreversible window                                                  *)
PriorOccurrences(pos, history) ==
    Cardinality({p \in pos.last_irreversible_ply .. pos.ply - 1 :
                   (pos.ply - p) % 2 = 0 /\ Get(history, p, 0) = pos.hash})

(* C12: the root frame returns through the draw test, for a root whose      *)
(* halfmove clock is below the limit, only if the root position has two     *)
(* earlier occurrences in the game history; one does not make it a draw,    *)
(* in whatever iteration.                                                   *)
C12_RootDrawNeedsTwo ==
    (/\ worker.returned.branch = "draw"
     /\ worker.returned.frame.ply = 0
     /\ worker.root.halfmove < HALFMOVE_DRAW_COUNT)
        => PriorOccurrences(worker.root, worker.history) >= 2
----------------------------------------------------------------------------
(* perft.rs : the legal-move tree walk, and perft_divide as the state       *)
(* machine that runs it one root move at a time.                            *)

(* rnbqkbnr/pppppppp/8/8/8/8/PPPPPPPP/RNBQKBNR w KQkq - 0 1 *)
FenStart ==
    read_fen({<<Rook(Black), 0>>, <<Knight(Black), 1>>, <<Bishop(Black), 2>>,
              <<Queen(Black), 3>>, <<King(Black), 4>>, <<Bishop(Black), 5>>,
              <<Knight(Black), 6>>, <<Rook(Black), 7>>, <<Pawn(Black), 8>>,
              <<Pawn(Black), 9>>, <<Pawn(Black), 10>>, <<Pawn(Black), 11>>,
              <<Pawn(Black), 12>>, <<Pawn(Black), 13>>, <<Pawn(Black), 14>>,
              <<Pawn(Black), 15>>, <<Pawn(White), 48>>, <<Pawn(White), 49>>,
              <<Pawn(White), 50>>, <<Pawn(White), 51>>, <<Pawn(White), 52>>,
              <<Pawn(White), 53>>, <<Pawn(White), 54>>, <<Pawn(White), 55>>,
              <<Rook(White), 56>>, <<Knight(White), 57>>,
              <<Bishop(White), 58>>, <<Queen(White), 59>>,
              <<King(White), 60>>, <<Bishop(White), 61>>,
              <<Knight(White), 62>>, <<Rook(White), 63>>},
             White, {"WK", "WQ", "BK", "BQ"}, None, 0, 1)
(* r3k2r/p1ppqpb1/bn2pnp1/3PN3/1p2P3/2N2Q1p/PPPBBPPP/R3K2R w KQkq - 0 1 *)
FenKiwipete ==
    read_fen({<<Rook(Black), 0>>, <<King(Black), 4>>, <<Rook(Black), 7>>,
              <<Pawn(Black), 8>>, <<Pawn(Black), 10>>, <<Pawn(Black), 11>>,
              <<Queen(Black), 12>>, <<Pawn(Black), 13>>,
              <<Bishop(Black), 14>>, <<Bishop(Black), 16>>,
              <<Knight(Black), 17>>, <<Pawn(Black), 20>>,
              <<Knight(Black), 21>>, <<Pawn(Black), 22>>,
              <<Pawn(White), 27>>, <<Knight(White), 28>>,
              <<Pawn(Black), 33>>, <<Pawn(White), 36>>,
              <<Knight(White), 42>>, <<Queen(White), 45>>,
              <<Pawn(Black), 47>>, <<Pawn(White), 48>>, <<Pawn(White), 49>>,
              <<Pawn(White), 50>>, <<Bishop(White), 51>>,
              <<Bishop(White), 52>>, <<Pawn(White), 53>>,
              <<Pawn(White), 54>>, <<Pawn(White), 55>>, <<Rook(White), 56>>,
              <<King(White), 60>>, <<Rook(White), 63>>},
             White, {"WK", "WQ", "BK", "BQ"}, None, 0, 1)
(* 8/2p5/3p4/KP5r/1R3p1k/8/4P1P1/8 w - - 0 1 *)
FenPosition3 ==
    read_fen({<<Pawn(Black), 10>>, <<Pawn(Black), 19>>, <<King(White), 24>>,
              <<Pawn(White), 25>>, <<Rook(Black), 31>>, <<Rook(White), 33>>,
              <<Pawn(Black), 37>>, <<King(Black), 39>>, <<Pawn(White), 52>>,
              <<Pawn(White), 54>>},
             White, {}, None, 0, 1)
LeavesKing_Never(pos, mv) == FALSE

(* pos.make_move(mv); if pos.is_check(!pos.turn) { *pos = prev; continue }   *)
LeavesKing(pos, mv) ==
    LET next == make_move(pos, mv) IN is_check(next, Not(next.turn))

RECURSIVE perft(_, _)
RECURSIVE PerftSum(_, _, _, _)
PerftSum(pos, moves, i, depth) ==
    IF i > Len(moves) THEN 0
    ELSE (IF LeavesKing(pos, moves[i]) THEN 0
          ELSE perft(make_move(pos, moves[i]), depth - 1))
         + PerftSum(pos, moves, i + 1, depth)

perft(pos, depth) ==
    IF depth = 0 THEN 1
    ELSE PerftSum(pos, gen_moves(pos), 1, depth)

(* bounds on the depth argument of perft: from the starting position, and  *)
(* from the two denser positions                                           *)
MaxPerftDepth == 4
MaxSuiteDepth == 2

(* the calls perft(pos, depth) *)
PerftCall(p, d) ==
    [name |-> "perft", pos |-> p, depth |-> d, pc |-> "enter",
     moves |-> <<>>, i |-> 0, nodes |-> 0]
PerftCalls ==
    {PerftCall(FenStart, d) : d \in 0 .. MaxPerftDepth}
    \cup {PerftCall(p, d) : p \in {FenKiwipete, FenPosition3},
                            d \in 0 .. MaxSuiteDepth}

PerftInit ==
    /\ call \in PerftCalls
    /\ result = <<>>
    /\ movelist = [moves |-> <<>>, length |-> 0, curr |-> 0]
    /\ PosIdle
    /\ EngIdle

(* if depth == 0 { return 1 }; nodes = 0; pos.gen_moves(&mut moves) *)
P_Enter ==
    /\ call.name = "perft" /\ call.pc = "enter"
    /\ IF call.depth = 0
       THEN /\ result' = <<1>>
            /\ call' = [call EXCEPT !.pc = "returned"]
       ELSE /\ call' = [call EXCEPT !.pc = "loop", !.moves = gen_moves(call.pos),
                                    !.i = 1, !.nodes = 0]
            /\ result' = result
    /\ UNCHANGED <<posVars, engVars, movelist>>

(* one turn of `for mv in moves`, the recursive call included *)
P_Loop ==
    /\ call.name = "perft" /\ call.pc = "loop"
    /\ call.i <= Len(call.moves)
    /\ LET mv == call.moves[call.i]
       IN  call' = [call EXCEPT
                      !.i = @ + 1,
                      !.nodes = IF LeavesKing(call.pos, mv) THEN @
                                ELSE @ + perft(make_move(call.pos, mv),
                                               call.depth - 1)]
    /\ UNCHANGED <<posVars, engVars, movelist, result>>

(* the loop is over: return nodes *)
P_Return ==
    /\ call.name = "perft" /\ call.pc = "loop"
    /\ call.i > Len(call.moves)
    /\ result' = <<call.nodes>>
    /\ call' = [call EXCEPT !.pc = "returned"]
    /\ UNCHANGED <<posVars, engVars, movelist>>

PerftNext == P_Enter \/ P_Loop \/ P_Return
SpecPerft == PerftInit /\ [][PerftNext]_vars

PerftReturned(p, d, n) ==
    (call.name = "perft" /\ call.pc = "returned" /\ call.pos = p /\ call.depth = d)
        => result = <<n>>

----------------------------------------------------------------------------
(* search.rs : static_exchange_evaluation, run one loop turn at a time.     *)

(* Piece::value. eval.rs is not part of the sources; the values are the     *)
(* ones the expected results of static_exchange_evaluation_test fix         *)
(* (82, 82 - 337 = -255, 365 - 1025 = -660), the rook's taken from the same *)
(* table. Kings are never attackers or targets here.                        *)
value(piece) == <<82, 337, 365, 477, 1025>>[PieceKind(piece) + 1]

Max(a, b) == IF a >= b THEN a ELSE b

(* the three positions of static_exchange_evaluation_test *)
(* 1k1r4/1pp4p/p7/4p3/8/P5P1/1PP4P/2K1R3 w - - 0 1 *)
FenSeeRook ==
    read_fen({<<King(Black), 1>>, <<Rook(Black), 3>>, <<Pawn(Black), 9>>,
              <<Pawn(Black), 10>>, <<Pawn(Black), 15>>, <<Pawn(Black), 16>>,
              <<Pawn(Black), 28>>, <<Pawn(White), 40>>, <<Pawn(White), 46>>,
              <<Pawn(White), 49>>, <<Pawn(White), 50>>, <<Pawn(White), 55>>,
              <<King(White), 58>>, <<Rook(White), 60>>},
             White, {}, None, 0, 1)
(* 1k1r3q/1ppn3p/p4b2/4p3/8/P2N2P1/1PP1R1BP/2K1Q3 w - - 0 1 *)
FenSeeKnight ==
    read_fen({<<King(Black), 1>>, <<Rook(Black), 3>>, <<Queen(Black), 7>>,
              <<Pawn(Black), 9>>, <<Pawn(Black), 10>>, <<Knight(Black), 11>>,
              <<Pawn(Black), 15>>, <<Pawn(Black), 16>>,
              <<Bishop(Black), 21>>, <<Pawn(Black), 28>>,
              <<Pawn(White), 40>>, <<Knight(White), 43>>,
              <<Pawn(White), 46>>, <<Pawn(White), 49>>, <<Pawn(White), 50>>,
              <<Rook(White), 52>>, <<Bishop(White), 54>>,
              <<Pawn(White), 55>>, <<King(White), 58>>, <<Queen(White), 60>>},
             White, {}, None, 0, 1)
(* r1bq1r1k/p1pn1pp1/1p2p3/6b1/3PB3/8/PPPQ1PPP/2KR3R w - - 0 2 *)
FenSeeQueen ==
    read_fen({<<Rook(Black), 0>>, <<Bishop(Black), 2>>, <<Queen(Black), 3>>,
              <<Rook(Black), 5>>, <<King(Black), 7>>, <<Pawn(Black), 8>>,
              <<Pawn(Black), 10>>, <<Knight(Black), 11>>,
              <<Pawn(Black), 13>>, <<Pawn(Black), 14>>, <<Pawn(Black), 17>>,
              <<Pawn(Black), 20>>, <<Bishop(Black), 30>>,
              <<Pawn(White), 35>>, <<Bishop(White), 36>>,
              <<Pawn(White), 48>>, <<Pawn(White), 49>>, <<Pawn(White), 50>>,
              <<Queen(White), 51>>, <<Pawn(White), 53>>, <<Pawn(White), 54>>,
              <<Pawn(White), 55>>, <<King(White), 58>>, <<Rook(White), 59>>,
              <<Rook(White), 63>>},
             White, {}, None, 0, 1)

(* the exchange square e5 and the squares around it the inputs vary *)
SqE5 == 28
SqD6 == 19
SqF6 == 21
SqD7 == 11
SqG7 == 14
SqH8 == 7
SqF4 == 37
SqD4 == 35
SqD3 == 43
SqE2 == 52
SqG5 == 30
SqD2 == 51

(* a position around a black pawn on e5: each of d6, f6, d7, g7, h8, f4 is  *)
(* empty or holds the piece named, and White captures with `first`, backed  *)
(* or not by a rook on e1                                                   *)
SeeOptions ==
    [d6 : {<<>>, <<Pawn(Black)>>, <<Pawn(White)>>},
     f6 : {<<>>, <<Pawn(Black)>>},
     d7 : {<<>>, <<Knight(Black)>>},
     g7 : {<<>>, <<Bishop(Black)>>},
     h8 : {<<>>, <<Queen(Black)>>},
     f4 : {<<>>, <<Pawn(White)>>, <<Pawn(Black)>>},
     e1 : {<<>>, <<Rook(White)>>},
     first : {<<Pawn(White), SqD4>>, <<Knight(White), SqD3>>,
              <<Queen(White), SqE2>>}]

On(o, sq) == IF o = <<>> THEN {} ELSE {<<o[1], sq>>}

SeeBoard(opt) ==
    {<<King(White), C1>>, <<King(Black), 1>>, <<Pawn(Black), SqE5>>, opt.first}
    \cup On(opt.d6, SqD6) \cup On(opt.f6, SqF6) \cup On(opt.d7, SqD7)
    \cup On(opt.g7, SqG7) \cup On(opt.h8, SqH8) \cup On(opt.f4, SqF4)
    \cup On(opt.e1, E1)

SeeCall(pos, from, to, attacker, target) ==
    [name |-> "see", pos |-> pos, from |-> from, to |-> to,
     attacker |-> attacker, target |-> target, pc |-> "enter",
     first_attacker |-> attacker,
     gain |-> [d \in 0 .. 31 |-> 0], depth |-> 0, side |-> pos.turn,
     from_bb |-> {}, occ |-> {}, removed |-> {}, attacks |-> {}]

SeeCalls ==
    {SeeCall(read_fen(SeeBoard(opt), White, {}, None, 0, 1),
             opt.first[2], SqE5, opt.first[1], Pawn(Black)) : opt \in SeeOptions}
    \cup {SeeCall(FenSeeRook, E1, SqE5, Rook(White), Pawn(Black)),
          SeeCall(FenSeeKnight, SqD3, SqE5, Knight(White), Pawn(Black)),
          SeeCall(FenSeeQueen, SqD2, SqG5, Queen(White), Bishop(Black))}

SeeInit ==
    /\ call \in SeeCalls
    /\ result = <<>>
    /\ movelist = [moves |-> <<>>, length |-> 0, curr |-> 0]
    /\ PosIdle
    /\ EngIdle

Kinds(pos, k) == pos.pieces[k] \cup pos.pieces[k + 6]

(* lines 334-355: the locals before the loop *)
S_Enter ==
    /\ call.name = "see" /\ call.pc = "enter"
    /\ LET pos == call.pos
           to == call.to
           occ == occupied(pos)
           attacks ==
               (pawn_attacks(to, White) \cap pos.pieces[Pawn(White)])
               \cup (pawn_attacks(to, Black) \cap pos.pieces[Pawn(Black)])
               \cup (knight_attacks(to) \cap Kinds(pos, 1))
               \cup (bishop_attacks(to, occ) \cap (Kinds(pos, 2) \cup Kinds(pos, 4)))
               \cup (rook_attacks(to, occ) \cap (Kinds(pos, 3) \cup Kinds(pos, 4)))
       IN  call' = [call EXCEPT !.pc = "swap", !.from_bb = {call.from},
                                !.occ = occ, !.removed = {},
                                !.attacks = attacks,
                                !.gain = [@ EXCEPT ![0] = value(call.target)]]
    /\ UNCHANGED <<posVars, engVars, movelist, result>>

(* the first piece of iter_colour(side), from index i on, with an attacker *)
RECURSIVE NextAttacker(_, _, _, _)
NextAttacker(pos, attacks, side, i) ==
    IF i > 6 THEN <<>>
    ELSE LET piece == iter_colour(side)[i]
             intersection == attacks \cap pos.pieces[piece]
         IN  IF intersection # {}
             THEN <<piece, Unwrap(get_lsb(intersection))>>
             ELSE NextAttacker(pos, attacks, side, i + 1)

(* lines 357-389: one turn of 'swap *)
S_Swap ==
    /\ call.name = "see" /\ call.pc = "swap"
    /\ LET pos == call.pos
           to == call.to
           depth == call.depth + 1
           side == Not(call.side)
           gain == [call.gain EXCEPT
                      ![depth] = value(call.attacker) - call.gain[depth - 1]]
           may_xray == Kinds(pos, 0) \cup Kinds(pos, 2) \cup Kinds(pos, 3)
                       \cup Kinds(pos, 4)
           attacks1 == Xor(call.attacks, call.from_bb)
           occ == Xor(call.occ, call.from_bb)
           removed == call.removed \cup call.from_bb
           kind == PieceKind(call.attacker)
           attacks2 ==
               IF intersects(may_xray, call.from_bb) /\ kind \in {3, 4}
               THEN attacks1 \cup
                    ((rook_attacks(to, occ)
                      \cap (Kinds(pos, 3) \cup Kinds(pos, 4))) \ removed)
               ELSE attacks1
           attacks3 ==
               IF intersects(may_xray, call.from_bb) /\ kind \in {0, 2, 4}
               THEN attacks2 \cup
                    ((bishop_attacks(to, occ)
                      \cap (Kinds(pos, 2) \cup Kinds(pos, 4))) \ removed)
               ELSE attacks2
           next == NextAttacker(pos, attacks3, side, 1)
       IN  IF Max(-gain[depth - 1], gain[depth]) < 0
           THEN call' = [call EXCEPT !.pc = "unroll", !.depth = depth,
                                     !.side = side, !.gain = gain]
           ELSE call' = [call EXCEPT
                           !.pc = IF next = <<>> THEN "unroll" ELSE "swap",
                           !.depth = depth, !.side = side, !.gain = gain,
                           !.attacks = attacks3, !.occ = occ,
                           !.removed = removed,
                           !.from_bb = IF next = <<>> THEN @ ELSE {next[2]},
                           !.attacker = IF next = <<>> THEN @ ELSE next[1]]
    /\ UNCHANGED <<posVars, engVars, movelist, result>>

(* lines 391-396: while { depth -= 1; depth > 0 } { ... } *)
S_Unroll ==
    /\ call.name = "see" /\ call.pc = "unroll"
    /\ call.depth - 1 > 0
    /\ LET depth == call.depth - 1
       IN  call' = [call EXCEPT
                      !.depth = depth,
                      !.gain = [call.gain EXCEPT ![depth - 1] =
                                  -Max(-call.gain[depth - 1],
                                       call.gain[depth])]]
    /\ UNCHANGED <<posVars, engVars, movelist, result>>

(* the loop is over: return gain[0] *)
S_Return ==
    /\ call.name = "see" /\ call.pc = "unroll"
    /\ ~(call.depth - 1 > 0)
    /\ call' = [call EXCEPT !.pc = "returned", !.depth = @ - 1]
    /\ result' = <<call.gain[0]>>
    /\ UNCHANGED <<posVars, engVars, movelist>>

SeeNext == S_Enter \/ S_Swap \/ S_Unroll \/ S_Return
SpecSee == SeeInit /\ [][SeeNext]_vars

(* the pieces of `side` that attack `to` when the squares of occ are the   *)
(* occupied ones: pawns from the squares a pawn of the other colour on     *)
(* `to` would attack, as is_sq_attacked_by finds them                      *)
AttackersOf(pos, to, occ, side) ==
    occ \cap
    ((pawn_attacks(to, Not(side)) \cap pos.pieces[Pawn(side)])
     \cup (knight_attacks(to) \cap pos.pieces[Knight(side)])
     \cup (bishop_attacks(to, occ)
           \cap (pos.pieces[Bishop(side)] \cup pos.pieces[Queen(side)]))
     \cup (rook_attacks(to, occ)
           \cap (pos.pieces[Rook(side)] \cup pos.pieces[Queen(side)])))

(* what `side` gains at best on `to`, where a piece worth v stands: it may *)
(* stop, or capture with its least valuable attacker and let the other     *)
(* side answer                                                             *)
RECURSIVE BestGain(_, _, _, _, _)
BestGain(pos, to, occ, side, v) ==
    LET next == NextAttacker(pos, AttackersOf(pos, to, occ, side), side, 1)
    IN  IF next = <<>> THEN 0
        ELSE Max(0, v - BestGain(pos, to, occ \ {next[2]}, Not(side),
                                 value(next[1])))

MinMaxValue(c) ==
    value(c.target)
    - BestGain(c.pos, c.to, occupied(c.pos) \ {c.from}, Not(c.pos.turn),
               value(c.first_attacker))

SeeReturned == call.name = "see" /\ call.pc = "returned"

(* C14: static_exchange_evaluation returns the min-max value of the capture *)
(* sequence on `to`, each side recapturing with its least valuable attacker *)
(* and free to stop: value(target) when the target is undefended,           *)
(* value(target) - value(attacker) when the capturer is lost to a cheaper   *)
(* recapture.                                                               *)
C14_SeeIsMinMax ==
    SeeReturned => result = <<MinMaxValue(call)>>

----------------------------------------------------------------------------
(* Mate in one: the search of 4k3/8/4K3/8/8/8/8/7R w - -.                   *)

(* interface.rs, write_full_info: the score field of the printed line *)
ScoreField(full) ==
    LET distance_from_mate == CHECKMATE - Abs(full.score)
    IN  IF distance_from_mate <= full.depth
        THEN <<"mate", distance_from_mate * signum(full.score)>>
        ELSE <<"cp", full.score>>

SentFull(d) ==
    {i \in 1 .. Len(info_ch) : info_ch[i].type = "Full" /\ info_ch[i].depth = d}

(* the root move of the game that stands for h1h8 *)
TreeMoves == gen_moves(FenMateInOne)
IsH1H8(mv) ==
    /\ mv # None
    /\ TreeMoves[Unwrap(mv).m].from = H1
    /\ TreeMoves[Unwrap(mv).m].to = H8

MateSearch ==
    /\ IsTree(worker.root.hash)
    /\ worker.stop_depth >= 2

(* C15: on the mate-in-one position a search with stop_depth 2 or more      *)
(* sends a depth-2 Full info whose score is CHECKMATE - 1, printed as       *)
(* `score mate 1`, goes no deeper, and ends with Done(Some(h1h8)), whatever *)
(* the evaluator.                                                           *)
C15_MateInOne ==
    MateSearch =>
        /\ worker.pc # "panicked"
        /\ \A i \in SentFull(2) :
              /\ info_ch[i].score = CHECKMATE - 1
              /\ ScoreField(info_ch[i]) = <<"mate", 1>>
        /\ \A i \in 1 .. Len(info_ch) :
              info_ch[i].type # "Done" => info_ch[i].depth <= 2
        /\ \A i \in DoneIndexes(info_ch) : IsH1H8(info_ch[i].mv)
        /\ worker.pc = "finished" =>
              /\ SentFull(2) # {}
              /\ DoneIndexes(info_ch) = {Len(info_ch)}

C15_Witness ==
    /\ MateSearch
    /\ worker.stop_depth = 3
    /\ worker.pc = "finished"
    /\ IsH1H8(info_ch[Len(info_ch)].mv)
    /\ \E i \in SentFull(2) : info_ch[i].score = CHECKMATE - 1
----------------------------------------------------------------------------
(* magic.rs : find_magic_number_rook / find_magic_number_bishop, one turn   *)
(* of 'magic_search per step.  A u64 is the set of its one bits, as a       *)
(* Bitboard is; products are computed on 12-bit limbs.                      *)

(* const SEED: u64 = 18401105770426537108, as the set of its one bits *)
SEED ==
    {2, 4, 7, 10, 12, 17, 19, 21, 23, 27, 28, 29, 30, 34, 36, 37, 42, 43,
     44, 46, 47, 48, 50, 51, 52, 54, 56, 57, 58, 59, 60, 61, 62, 63}

ROOK_BITS ==
    <<12, 11, 11, 11, 11, 11, 11, 12,
      11, 10, 10, 10, 10, 10, 10, 11,
      11, 10, 10, 10, 10, 10, 10, 11,
      11, 10, 10, 10, 10, 10, 10, 11,
      11, 10, 10, 10, 10, 10, 10, 11,
      11, 10, 10, 10, 10, 10, 10, 11,
      11, 10, 10, 10, 10, 10, 10, 11,
      12, 11, 11, 11, 11, 11, 11, 12>>

BISHOP_BITS ==
    <<6, 5, 5, 5, 5, 5, 5, 6,
      5, 5, 5, 5, 5, 5, 5, 5,
      5, 5, 7, 7, 7, 7, 5, 5,
      5, 5, 7, 9, 9, 7, 5, 5,
      5, 5, 7, 9, 9, 7, 5, 5,
      5, 5, 7, 7, 7, 7, 5, 5,
      5, 5, 5, 5, 5, 5, 5, 5,
      6, 5, 5, 5, 5, 5, 5, 6>>

(* one ray of bishop_attacks_mask: as bishop_attacks, stopping before the   *)
(* board's edge and at no blocker                                           *)
RECURSIVE BishopMaskRay(_, _, _)
BishopMaskRay(to_sq, prev_rank, direction) ==
    IF to_sq = None THEN {}
    ELSE LET sq == Unwrap(to_sq) IN
         IF rank(sq) - prev_rank # signum(direction) THEN {}
         ELSE IF rank(sq) \in {0, 7} \/ file(sq) \in {0, 7} THEN {}
         ELSE {sq} \cup BishopMaskRay(SquareAdd(sq, direction), rank(sq),
                                      direction)

bishop_attacks_mask(from_sq) ==
    UNION {BishopMaskRay(SquareAdd(from_sq, d), rank(from_sq), d)
           : d \in {9, 7, -9, -7}}

RECURSIVE RookMaskRay(_, _, _)
RookMaskRay(to_sq, from_sq, direction) ==
    IF to_sq = None THEN {}
    ELSE LET sq == Unwrap(to_sq) IN
         IF rank(from_sq) # rank(sq) /\ file(from_sq) # file(sq) THEN {}
         ELSE IF \/ direction \in {8, -8} /\ rank(sq) \in {0, 7}
                 \/ direction \in {1, -1} /\ file(sq) \in {0, 7}
         THEN {}
         ELSE {sq} \cup RookMaskRay(SquareAdd(sq, direction), from_sq,
                                    direction)

rook_attacks_mask(from_sq) ==
    UNION {RookMaskRay(SquareAdd(from_sq, d), from_sq, d)
           : d \in {1, -1, 8, -8}}

(* gen_occupancy: bit n of index selects the n-th square of the mask *)
Pow2(n) == <<1, 2, 4, 8, 16, 32, 64, 128, 256, 512, 1024, 2048, 4096>>[n + 1]
gen_occupancy(index, squares) ==
    {squares[n + 1] : n \in {m \in 0 .. Len(squares) - 1 :
                               (index \div Pow2(m)) % 2 = 1}}

(* XorShift::gen_next and gen_magic *)
gen_next(x) ==
    LET x1 == Xor(x, Shl(x, 13))
        x2 == Xor(x1, Shr(x1, 7))
    IN  Xor(x2, Shl(x2, 17))

(* the three states gen_magic goes through, and the magic it returns *)
gen_magic(state) ==
    LET s1 == gen_next(state)
        s2 == gen_next(s1)
        s3 == gen_next(s2)
    IN  [magic |-> s1 \cap s2 \cap s3, state |-> s3]

(* the 12-bit limbs of a u64, least significant first *)
RECURSIVE LimbValue(_, _)
LimbValue(bits, j) ==
    IF bits = {} THEN 0
    ELSE LET b == Min(bits) IN Pow2(b - 12 * j) + LimbValue(bits \ {b}, j)
Limbs(x) ==
    [j \in 0 .. 5 |-> LimbValue({b \in x : b \div 12 = j}, j)]

(* limb k of a product and the carry out of it *)
RECURSIVE MulCarry(_, _, _)
MulColumn(a, b, k) ==
    LET s0 == a[0] * b[k]
        s1 == IF k >= 1 THEN a[1] * b[k - 1] ELSE 0
        s2 == IF k >= 2 THEN a[2] * b[k - 2] ELSE 0
        s3 == IF k >= 3 THEN a[3] * b[k - 3] ELSE 0
        s4 == IF k >= 4 THEN a[4] * b[k - 4] ELSE 0
        s5 == IF k >= 5 THEN a[5] * b[0] ELSE 0
    IN  s0 + s1 + s2 + s3 + s4 + s5
MulCarry(a, b, k) ==
    IF k < 0 THEN 0
    ELSE (MulColumn(a, b, k) + MulCarry(a, b, k - 1)) \div 4096
MulLimb(a, b, k) == (MulColumn(a, b, k) + MulCarry(a, b, k - 1)) % 4096

(* the top 12 bits of overflowing_mul(x, y).0, from the limbs of x and y *)
MulTop12(a, b) == (MulLimb(a, b, 5) % 16) * 256 + MulLimb(a, b, 4) \div 16

(* (mul >> (64 - bits)) as usize *)
MagicIndex(occ, magicLimbs, bits) ==
    MulTop12(Limbs(occ), magicLimbs) \div Pow2(12 - bits)

RECURSIVE CountOnes(_)
CountOnes(n) == IF n = 0 THEN 0 ELSE (n % 2) + CountOnes(n \div 2)

MAX_ROOK_BITS == 4096
MAX_BISHOP_BITS == 512

(* the piece-specific parts of the two find_magic_number functions *)
MagicMask(piece, sq) ==
    IF piece = "rook" THEN rook_attacks_mask(sq) ELSE bishop_attacks_mask(sq)
MagicBits(piece, sq) ==
    IF piece = "rook" THEN ROOK_BITS[sq + 1] ELSE BISHOP_BITS[sq + 1]
MagicTableLen(piece) ==
    IF piece = "rook" THEN MAX_ROOK_BITS ELSE MAX_BISHOP_BITS
RayWalk(piece, sq, occ) ==
    IF piece = "rook" THEN rook_attacks(sq, occ) ELSE bishop_attacks(sq, occ)

(* !attacks_by_magic[magic_idx].is_empty() *)
SlotTaken_Never(table, idx) == FALSE
SlotTaken(table, idx) == table[idx] # {}

(* the for loop that fills attacks_by_magic, for i in lo ..= hi: None where *)
(* the loop left by continue 'magic_search, the filled table otherwise;     *)
(* the range is split in halves, run one after the other                    *)
RECURSIVE FillByMagic(_, _, _, _, _)
FillByMagic(c, magicLimbs, lo, hi, table) ==
    IF table = None THEN None
    ELSE IF lo = hi
    THEN LET magic_idx ==
                 MagicIndex(c.occupancies[lo], magicLimbs, c.bits)
         IN  IF SlotTaken(Unwrap(table), magic_idx) THEN None
             ELSE Some([Unwrap(table) EXCEPT
                           ![magic_idx] = c.attacks_by_occupancy[lo]])
    ELSE LET mid == (lo + hi) \div 2
             first == FillByMagic(c, magicLimbs, lo, mid, table)
         IN  FillByMagic(c, magicLimbs, mid + 1, hi, first)

(* (mul & 0xFF00000000000000).count_ones() *)
TopByteOnes(mask, magicLimbs) ==
    CountOnes(MulTop12(Limbs(mask), magicLimbs) \div 16)

(* the squares find_magic_number_* is run for *)
MagicSquares ==
    {<<"bishop", 4>>, <<"bishop", 51>>, <<"bishop", 9>>, <<"bishop", 59>>,
     <<"bishop", 41>>, <<"rook", 3>>}

(* the function's locals before 'magic_search *)
MagicCall(piece, sq) ==
    LET mask == MagicMask(piece, sq)
        squares == BitboardIter(mask)
        num_bit_combinations == Pow2(Cardinality(mask))
        occupancies == [i \in 1 .. num_bit_combinations |->
                           gen_occupancy(i - 1, squares)]
    IN  [name |-> "find_magic_number", piece |-> piece, sq |-> sq,
         mask |-> mask, bits |-> MagicBits(piece, sq),
         occupancies |-> occupancies,
         attacks_by_occupancy |->
             [i \in 1 .. num_bit_combinations |->
                 RayWalk(piece, sq, occupancies[i])],
         state |-> SEED]

MagicInit ==
    /\ PosIdle
    /\ EngIdle
    /\ movelist = <<>>
    /\ \E input \in MagicSquares : call = MagicCall(input[1], input[2])
    /\ result = None

(* one turn of 'magic_search *)
M_Search ==
    /\ call.name = "find_magic_number"
    /\ result = None
    /\ LET g == gen_magic(call.state)
           magicLimbs == Limbs(g.magic)
           empty == [i \in 0 .. MagicTableLen(call.piece) - 1 |-> {}]
           filled == IF TopByteOnes(call.mask, magicLimbs) < 6 THEN None
                     ELSE FillByMagic(call, magicLimbs, 1, Len(call.occupancies),
                                      Some(empty))
       IN  IF filled = None
           THEN /\ call' = [call EXCEPT !.state = g.state]
                /\ result' = result
           ELSE /\ call' = [call EXCEPT !.state = g.state]
                /\ result' = Some([attacks |-> Unwrap(filled),
                                   mask |-> call.mask, magic |-> g.magic])
    /\ UNCHANGED <<posVars, engVars, movelist>>

MagicNext == M_Search
SpecMagic == MagicInit /\ [][MagicNext]_vars

(* blockers off the mask that a lookup's occupancy may hold *)
OffMask(c) ==
    {{}, Squares \ c.mask, {c.sq},
     {s \in Squares : rank(s) \in {0, 7} \/ file(s) \in {0, 7}} \ c.mask}

MagicReturned == call.name = "find_magic_number" /\ result # None

(* the table's entry for an occupancy: index ((occ & mask) * magic) >> (64 - k) *)
MagicLookup(c, m, occ) ==
    m.attacks[MagicIndex(occ \cap m.mask, Limbs(m.magic), c.bits)]

(* C16: the table find_magic_number_rook / find_magic_number_bishop returns *)
(* holds, at the magic index of every occupancy, the ray-walk attack set of *)
(* the piece on that square with those blockers, and the index width is the *)
(* mask's popcount.                                                         *)
C16_MagicLookup ==
    MagicReturned =>
        LET m == Unwrap(result) IN
        /\ call.bits = Cardinality(m.mask)
        /\ \A sq \in Squares :
              /\ ROOK_BITS[sq + 1] = Cardinality(rook_attacks_mask(sq))
              /\ BISHOP_BITS[sq + 1] = Cardinality(bishop_attacks_mask(sq))
        /\ \A S \in SUBSET m.mask : \A E \in OffMask(call) :
              MagicLookup(call, m, S \cup E) =
                  RayWalk(call.piece, call.sq, S \cup E)

(* a rook's table was returned, after magics were rejected *)
C16_Witness ==
    /\ MagicReturned
    /\ call.piece = "rook"
    /\ call.state # gen_magic(SEED).state
    /\ Cardinality({i \in DOMAIN Unwrap(result).attacks :
                      Unwrap(result).attacks[i] # {}}) = 2048
----------------------------------------------------------------------------
(* engine.rs : Engine::receive_info and what it prints.  The search thread  *)
(* is any sender of CurrMove, Full and Done messages; `result` is the       *)
(* engine's standard output.                                                *)

(* messages the search thread sends during one search, and the clock *)
MaxInfoMsgs == 4
TickMs == 1000
MaxInfoClock == 4000

(* the lines one message makes receive_info print *)
CurrMoveLine(msg, origin) ==
    [line |-> "currmove", depth |-> msg.depth, mv |-> msg.mv,
     mv_num |-> msg.mv_num, origin |-> origin]

InfoOutput(eng, msg) ==
    CASE msg.type = "Full" ->
           <<[line |-> "full", depth |-> msg.depth, nodes |-> msg.nodes]>>
      [] msg.type = "CurrMove" ->
           IF CurrMoveDue(eng, now)
           THEN [i \in 1 .. Len(eng.currmove_buffer) |->
                    CurrMoveLine(eng.currmove_buffer[i], "buffer")]
                \o <<CurrMoveLine(msg, "message")>>
           ELSE <<>>
      [] OTHER -> <<[line |-> "bestmove", mv |-> msg.mv]>>

(* the n-th message of the search thread *)
InfoMessages(n) ==
    {[type |-> "CurrMove", depth |-> 1, mv |-> n, mv_num |-> n],
     [type |-> "Full", depth |-> 1, seldepth |-> 1, score |-> 0, nodes |-> n,
      pv |-> EmptyArray],
     [type |-> "Done", mv |-> None]}

(* a search has just been started by Engine::search *)
InfoInit ==
    /\ PosIdle
    /\ engine = [EngineInit(GamePosition(1, 0)) EXCEPT !.search_handle = TRUE]
    /\ cpc = "info"
    /\ now = 0
    /\ search_ch = <<>>
    /\ info_ch = <<>>
    /\ worker = [WorkerNone EXCEPT !.pc = "search"]
    /\ ghost = GhostInit
    /\ movelist = [moves |-> <<>>, length |-> 0, curr |-> 0]
    /\ call = [name |-> "receive_info", sent |-> 0]
    /\ result = <<>>

(* tx.send(..) of the search thread *)
I_Send ==
    /\ call.name = "receive_info"
    /\ worker.pc = "search"
    /\ call.sent < MaxInfoMsgs
    /\ \E msg \in InfoMessages(call.sent + 1) :
         /\ info_ch' = Append(info_ch, msg)
         /\ worker' = IF msg.type = "Done"
                      THEN [worker EXCEPT !.pc = "finished"] ELSE worker
    /\ call' = [call EXCEPT !.sent = @ + 1]
    /\ UNCHANGED <<posVars, engine, cpc, now, search_ch, ghost, movelist, result>>

(* one turn of the for loop of receive_info *)
I_Receive ==
    /\ call.name = "receive_info"
    /\ info_ch # <<>>
    /\ LET msg == Head(info_ch) IN
         /\ engine' = HandleInfo(engine, msg)
         /\ result' = result \o InfoOutput(engine, msg)
         /\ info_ch' = Tail(info_ch)
         /\ worker' = IF msg.type = "Done"
                      THEN [worker EXCEPT !.pc = "none"] ELSE worker
    /\ UNCHANGED <<posVars, cpc, now, search_ch, ghost, movelist, call>>

I_Tick ==
    /\ call.name = "receive_info"
    /\ now + TickMs <= MaxInfoClock
    /\ now' = now + TickMs
    /\ UNCHANGED <<posVars, engine, cpc, search_ch, info_ch, worker, ghost, auxVars>>

InfoNext == I_Send \/ I_Receive \/ I_Tick
SpecInfo == InfoInit /\ [][InfoNext]_vars

(* the lines printed by a step *)
Printed == SubSeq(result', Len(result) + 1, Len(result'))
Handles(type) ==
    /\ call.name = "receive_info"
    /\ info_ch # <<>>
    /\ info_ch' = Tail(info_ch)
    /\ Head(info_ch).type = type

(* C17: a CurrMove handled while at most CURRMOVE_WAIT_TIME ms have elapsed *)
(* since the search started is appended to the buffer and nothing is        *)
(* printed; one handled later prints the buffered CurrMoves in arrival      *)
(* order, then itself, and leaves the buffer empty; a Full info empties the *)
(* buffer and prints no CurrMove.                                           *)
C17_CurrMoveRateLimit ==
    [][/\ Handles("CurrMove") /\ now - engine.search_time <= 3000 =>
            /\ Printed = <<>>
            /\ engine'.currmove_buffer =
                   Append(engine.currmove_buffer, Head(info_ch))
       /\ Handles("CurrMove") /\ now - engine.search_time > 3000 =>
            /\ Printed = [i \in 1 .. Len(engine.currmove_buffer) + 1 |->
                            IF i <= Len(engine.currmove_buffer)
                            THEN CurrMoveLine(engine.currmove_buffer[i], "buffer")
                            ELSE CurrMoveLine(Head(info_ch), "message")]
            /\ engine'.currmove_buffer = <<>>
       /\ Handles("Full") =>
            /\ engine'.currmove_buffer = <<>>
            /\ \A i \in 1 .. Len(Printed) : Printed[i].line # "currmove"]_vars

(* the first CurrMove was buffered and dropped by the Full info that came   *)
(* second; the third was buffered and printed before the fourth, which came *)
(* after the threshold                                                      *)
C17_Witness ==
    /\ call.name = "receive_info"
    /\ Len(result) = 3
    /\ result[1].line = "full" /\ result[1].nodes = 2
    /\ result[2].line = "currmove" /\ result[2].origin = "buffer"
    /\ result[2].mv = 3
    /\ result[3].line = "currmove" /\ result[3].origin = "message"
    /\ result[3].mv = 4
----------------------------------------------------------------------------
(* engine.rs : Engine::set_search_limit on the controls `go` can build      *)

(* go: movestogo is a u8, the times are u32 *)
LimitMovesToGo == {0, 1, 38, 40, 253, 254, 255}
LimitTimes == {0, 1, 256, 60000, U32_MAX}
LimitMoveTimes == {0, 100}

LimitControl(time, movetime, movestogo, infinite) ==
    [SearchControl(MAX_DEPTH, U32_MAX, movetime, infinite)
        EXCEPT !.wtime = time, !.btime = time, !.movestogo = movestogo]

(* the engine just before self.set_search_limit(control) in Engine::search, *)
(* built with or without overflow checks                                    *)
LimitInit ==
    /\ PosIdle
    /\ EngIdle
    /\ movelist = [moves |-> <<>>, length |-> 0, curr |-> 0]
    /\ \E time \in LimitTimes, movetime \in LimitMoveTimes,
          movestogo \in LimitMovesToGo, infinite \in BOOLEAN,
          overflow_checks \in BOOLEAN, turn \in {White, Black} :
         call = [name |-> "set_search_limit",
                 control |-> LimitControl(time, movetime, movestogo, infinite),
                 overflow_checks |-> overflow_checks,
                 eng |-> [EngineInit([GamePosition(1, 0) EXCEPT !.turn = turn])
                             EXCEPT !.search_handle = TRUE]]
    /\ result = None

L_SetSearchLimit ==
    /\ call.name = "set_search_limit"
    /\ result = None
    /\ result' = Some(set_search_limit(call.eng, call.control,
                                       call.overflow_checks))
    /\ UNCHANGED <<posVars, engVars, movelist, call>>

LimitNext == L_SetSearchLimit
SpecLimit == LimitInit /\ [][LimitNext]_vars

(* the budget the rule gives: movetime, else time / (movestogo + 2) with 40 *)
(* for 0                                                                    *)
Budget(control, turn) ==
    IF control.movetime # 0 THEN control.movetime
    ELSE (IF turn = White THEN control.wtime ELSE control.btime)
         \div ((IF control.movestogo = 0 THEN 40 ELSE control.movestogo) + 2)

(* C18: for a non-infinite go, set_search_limit leaves max_time = movetime  *)
(* when movetime # 0 and floor(time of the side to move / (movestogo + 2))  *)
(* otherwise, 40 standing for movestogo 0, and does not panic, for every    *)
(* movestogo 0..255.                                                        *)
C18_TimeBudget ==
    call.name = "set_search_limit" /\ result # None /\ ~call.control.infinite =>
        /\ ~Unwrap(result).panicked
        /\ Unwrap(result).max_time = Budget(call.control, call.eng.position.turn)
----------------------------------------------------------------------------
(* search.rs : negamax, the code after `for mv in moves`                    *)

(* the worker is about to run the code after the loop of a negamax frame *)
AtLoopEnd ==
    /\ worker.pc = "search"
    /\ worker.stack # <<>>
    /\ Top(worker).fn = "negamax"
    /\ Top(worker).stage = "loop"
    /\ Top(worker).curr >= Len(Top(worker).moves)

(* C19: a negamax frame with depth > 0 in which no generated move was legal *)
(* returns -CHECKMATE + ply when the side to move is in check and STALEMATE *)
(* otherwise; a frame that searched a legal move does not return through    *)
(* that branch.                                                             *)
C19_NoLegalMoveBranch ==
    [][AtLoopEnd /\ worker' # worker =>
          IF Top(worker).legal_moves = 0
          THEN /\ worker'.pc # "panicked"
               /\ worker'.returned.branch = "no_legal_move"
               /\ worker'.returned.frame = Top(worker)
               /\ worker'.returned.value =
                      IF GameInCheck(worker.pos.hash)
                      THEN -CHECKMATE + Top(worker).ply ELSE STALEMATE
          ELSE worker'.returned.branch # "no_legal_move"]_vars
----------------------------------------------------------------------------
(* movegen.rs : gen_moves on positions around the four castling moves       *)

(* kings and rooks at home, and up to two more pieces: any piece but a king *)
(* on any free square (pawns off the back ranks), and a pawn in front of    *)
(* one of the castling paths                                                *)
CastleHome ==
    {<<King(White), E1>>, <<Rook(White), A1>>, <<Rook(White), H1>>,
     <<King(Black), E8>>, <<Rook(Black), 0>>, <<Rook(Black), 7>>}
CastleHomeSquares == {x[2] : x \in CastleHome}
CastleFirst ==
    {<<>>} \cup
    {<<<<piece, sq>>>> : piece \in (0 .. 11) \ {King(White), King(Black)},
                         sq \in Squares \ (CastleHomeSquares \cup backranks)}
    \cup
    {<<<<piece, sq>>>> : piece \in (0 .. 11) \ {King(White), King(Black),
                                                 Pawn(White), Pawn(Black)},
                         sq \in backranks \ CastleHomeSquares}
CastleSecond ==
    {<<>>, <<<<Pawn(White), 53>>>>, <<<<Pawn(White), 51>>>>,
     <<<<Pawn(Black), 13>>>>, <<<<Pawn(Black), 11>>>>}

CastlePosition(first, second, rights, turn) ==
    read_fen(CastleHome \cup {first[i] : i \in DOMAIN first}
                        \cup {second[i] : i \in DOMAIN second},
             turn, rights, None, 0, 1)

CastleInit ==
    /\ PosIdle
    /\ EngIdle
    /\ movelist = [moves |-> <<>>, length |-> 0, curr |-> 0]
    /\ \E first \in CastleFirst, second \in CastleSecond,
          rights \in SUBSET CastlingFlags, turn \in {White, Black} :
         /\ IF first = <<>> \/ second = <<>> THEN TRUE
            ELSE first[1][2] # second[1][2]
         /\ call = [name |-> "gen_moves",
                    pos |-> CastlePosition(first, second, rights, turn)]
    /\ result = None

G_GenMoves ==
    /\ call.name = "gen_moves"
    /\ result = None
    /\ result' = Some(gen_moves(call.pos))
    /\ UNCHANGED <<posVars, engVars, movelist, call>>

CastleNext == G_GenMoves
SpecCastle == CastleInit /\ [][CastleNext]_vars

(* the four castling moves: who castles, the squares between king and rook, *)
(* and the king's origin, transit and destination                           *)
Variant(flag) ==
    CASE flag = "WK" -> [c |-> White, between |-> {61, 62}, king |-> <<60, 61, 62>>]
      [] flag = "WQ" -> [c |-> White, between |-> {57, 58, 59}, king |-> <<60, 59, 58>>]
      [] flag = "BK" -> [c |-> Black, between |-> {5, 6}, king |-> <<4, 5, 6>>]
      [] flag = "BQ" -> [c |-> Black, between |-> {1, 2, 3}, king |-> <<4, 3, 2>>]

VariantMove(flag) ==
    Move(Variant(flag).king[1], Variant(flag).king[3], King(Variant(flag).c),
         "Castling", <<CastlingBit(flag)>>)

(* a piece of `side` stands on a square from which it attacks sq *)
AttackedBy(pos, sq, side) ==
    \E piece \in 6 * side .. 6 * side + 5 : \E from \in pos.pieces[piece] :
        sq \in PieceAttacks(pos, piece, from)

MayCastle(pos, flag) ==
    LET v == Variant(flag) IN
    /\ pos.turn = v.c
    /\ flag \in pos.castling
    /\ \A sq \in v.between : \A piece \in 0 .. 11 : sq \notin pos.pieces[piece]
    /\ \A i \in 1 .. 3 : ~AttackedBy(pos, v.king[i], Not(v.c))

Emitted(moves, mv) == \E i \in 1 .. Len(moves) : moves[i] = mv
CastleReturned == call.name = "gen_moves" /\ result # None

(* C20: gen_moves emits the Castling move of a variant exactly when it is   *)
(* that colour's turn, the right is set, the squares between king and rook  *)
(* are empty and the king's origin, transit and destination are not         *)
(* attacked by the opponent; it emits no other Castling move.               *)
C20_CastlingIff ==
    CastleReturned =>
        LET moves == Unwrap(result) IN
        /\ \A flag \in CastlingFlags :
              Emitted(moves, VariantMove(flag)) <=> MayCastle(call.pos, flag)
        /\ \A i \in 1 .. Len(moves) :
              moves[i].kind = "Castling" =>
                  \E flag \in CastlingFlags : moves[i] = VariantMove(flag)

(* White castles queenside although b1 is attacked, and not kingside,       *)
(* because f1 is attacked                                                   *)
C20_Witness ==
    /\ CastleReturned
    /\ call.pos.castling = CastlingFlags
    /\ Emitted(Unwrap(result), VariantMove("WQ"))
    /\ ~Emitted(Unwrap(result), VariantMove("WK"))
    /\ AttackedBy(call.pos, 57, Black)
    /\ AttackedBy(call.pos, F1, Black)
    /\ \A sq \in {61, 62} : \A piece \in 0 .. 11 : sq \notin call.pos.pieces[piece]
----------------------------------------------------------------------------
(* make_move.rs : Position::make_move along sequences of generated moves,   *)
(* as `position ... moves ...` and the search apply it.  halfmove and ply   *)
(* are u8: `+= 1` at 255 panics in a build with overflow checks and wraps   *)
(* to 0 in one without.                                                     *)

(* r3k2r/8/8/8/8/8/8/R3K2R w KQkq - 0 1 *)
FenAllRights ==
    read_fen({<<Rook(Black), 0>>, <<King(Black), 4>>, <<Rook(Black), 7>>,
              <<Rook(White), 56>>, <<King(White), 60>>, <<Rook(White), 63>>},
             White, {"WK", "WQ", "BK", "BQ"}, None, 0, 1)

(* 4k3/8/8/3pP3/8/8/8/4K3 w - d6 0 1 *)
FenEnPassant ==
    read_fen({<<King(Black), 4>>, <<Pawn(Black), 27>>, <<Pawn(White), 28>>,
              <<King(White), 60>>},
             White, {}, Some(19), 0, 1)

(* 4k3/8/8/8/8/8/8/4K3 b - - 0 127 *)
FenLate ==
    read_fen({<<King(Black), 4>>, <<King(White), 60>>},
             Black, {}, None, 0, 127)

(* 4k3/8/8/8/8/8/8/4K3 w - - 255 1 *)
FenHalfmove ==
    read_fen({<<King(Black), 4>>, <<King(White), 60>>},
             White, {}, None, 255, 1)

(* moves made from a position with many moves, and from a bare-kings one *)
MaxPlies == 2
MaxLatePlies == 3

MakeInputs ==
    {[pos |-> FenAllRights, plies |-> MaxPlies],
     [pos |-> FenPawns, plies |-> MaxPlies],
     [pos |-> FenEnPassant, plies |-> MaxPlies],
     [pos |-> FenLate, plies |-> MaxLatePlies],
     [pos |-> FenHalfmove, plies |-> MaxLatePlies]}

MakeInit ==
    /\ \E input \in MakeInputs, overflow_checks \in BOOLEAN :
         /\ position = input.pos
         /\ call = [name |-> "make_move", plies |-> input.plies,
                    overflow_checks |-> overflow_checks]
    /\ lastCmd = [name |-> "none", arg |-> <<>>]
    /\ prevPosition = position
    /\ nMoves = 0
    /\ EngIdle
    /\ movelist = [moves |-> <<>>, length |-> 0, curr |-> 0]
    /\ result = None

(* self.halfmove += 1; self.ply += 1 *)
MakeMoveOverflows(pos) == pos.halfmove = 255 \/ pos.ply = 255

(* position.make_move(mv) for a generated move *)
MM_MakeMove ==
    /\ call.name = "make_move"
    /\ lastCmd.name # "panic"
    /\ nMoves < call.plies
    /\ \E mv \in Range(gen_moves(position)) :
         /\ prevPosition' = position
         /\ nMoves' = nMoves + 1
         /\ IF MakeMoveOverflows(position) /\ call.overflow_checks
            THEN /\ lastCmd' = [name |-> "panic", arg |-> mv]
                 /\ position' = position
            ELSE /\ lastCmd' = [name |-> "make_move", arg |-> mv]
                 /\ position' = make_move(position, mv)
    /\ UNCHANGED <<engVars, auxVars>>

MakeNext == MM_MakeMove
SpecMake == MakeInit /\ [][MakeNext]_vars

(* a step in which make_move was called, and one in which it returned *)
Called == call.name = "make_move" /\ nMoves' = nMoves + 1
Made == Called /\ lastCmd'.name = "make_move"

(* the rights the rule takes away for a move *)
RightsLost(mv) ==
    (IF mv.piece = King(White) THEN {"WK", "WQ"} ELSE {})
    \cup (IF mv.piece = King(Black) THEN {"BK", "BQ"} ELSE {})
    \cup (IF A1 \in {mv.from, mv.to} THEN {"WQ"} ELSE {})
    \cup (IF H1 \in {mv.from, mv.to} THEN {"WK"} ELSE {})
    \cup (IF A8 \in {mv.from, mv.to} THEN {"BQ"} ELSE {})
    \cup (IF H8 \in {mv.from, mv.to} THEN {"BK"} ELSE {})

(* C21: make_move takes away both rights of the colour whose king moves and *)
(* the right of every corner a1, h1, a8, h8 the move leaves or enters; it   *)
(* changes no other right and never adds one.                               *)
C21_CastlingRights ==
    [][Made => position'.castling = position.castling \ RightsLost(lastCmd'.arg)]_vars

(* the a1 rook has taken the a8 rook: WQ and BQ are gone, WK and BK stay *)
C21_Witness ==
    /\ call.name = "make_move"
    /\ lastCmd.name = "make_move"
    /\ lastCmd.arg.from = A1 /\ lastCmd.arg.to = A8
    /\ prevPosition.castling = CastlingFlags
    /\ position.castling = {"WK", "BK"}

(* the square a double pawn push skips *)
Skipped(mv) == (mv.from + mv.to) \div 2

(* C22: after every make_move ply is the previous ply plus 1, turn is       *)
(* toggled, and en_passant is set exactly for a DoublePawnPush, to the      *)
(* square the pawn skipped, on chess rank 3 or 6; after every other kind of *)
(* move it is None whatever it was before.                                  *)
C22_PlyTurnEnPassant ==
    [][Called =>
          /\ lastCmd'.name = "make_move"
          /\ position'.ply = position.ply + 1
          /\ position'.turn = Not(position.turn)
          /\ IF lastCmd'.arg.kind = "DoublePawnPush"
             THEN /\ position'.en_passant = Some(Skipped(lastCmd'.arg))
                  /\ rank(Skipped(lastCmd'.arg)) \in {2, 5}
             ELSE position'.en_passant = None]_vars

(* the moves after which last_irreversible is the new ply *)
Irreversible(pos, mv) ==
    \/ mv.kind \in {"Capture", "EnPassant", "PromotionCapture", "Castling"}
    \/ PieceKind(mv.piece) = 0
    \/ RightsLost(mv) \cap pos.castling # {}

ResetsHalfmove(mv) ==
    \/ mv.kind \in {"Capture", "EnPassant", "PromotionCapture"}
    \/ PieceKind(mv.piece) = 0

(* C23: after a capture, a pawn move, a castling or a move that takes a     *)
(* castling right away last_irreversible is the new ply, after every other  *)
(* move it is unchanged; last_irreversible <= ply in every position         *)
(* reached; halfmove is 0 after a capture or pawn move and the previous     *)
(* halfmove plus 1 otherwise.                                               *)
C23_Irreversible ==
    [][Called =>
          /\ lastCmd'.name = "make_move"
          /\ position'.last_irreversible =
                 IF Irreversible(position, lastCmd'.arg)
                 THEN position.ply + 1 ELSE position.last_irreversible
          /\ position'.last_irreversible <= position'.ply
          /\ position'.halfmove =
                 IF ResetsHalfmove(lastCmd'.arg) THEN 0
                 ELSE position.halfmove + 1]_vars

----------------------------------------------------------------------------
(* Move ordering: the search alone, to `go depth 3`, on the two games whose *)
(* root has several moves.                                                  *)
MaxOrderDepth == 3

OrderInit ==
    /\ \E id \in {1, 30} : \E stop_depth \in 1 .. MaxOrderDepth :
         /\ engine = [EngineInit(GamePosition(id, 0)) EXCEPT !.search_handle = TRUE]
         /\ worker = [WorkerNone EXCEPT !.pc = "drain",
                        !.pos = GamePosition(id, 0),
                        !.root = GamePosition(id, 0),
                        !.stop_depth = stop_depth,
                        !.stop_nodes = U32_MAX,
                        !.history = EmptyArray]
    /\ call = [name |-> "none"]
    /\ ghost = [GhostInit EXCEPT !.nSpawned = 1, !.nWorkers = 1]
    /\ cpc = "input"
    /\ now = 0
    /\ search_ch = <<>>
    /\ info_ch = <<>>
    /\ PosIdle
    /\ movelist = [moves |-> <<>>, length |-> 0, curr |-> 0]
    /\ result = <<>>

SpecOrder == OrderInit /\ [][SearchNext]_vars

(* the principal variation of the previous iteration: the pv of the last    *)
(* Full message, which no controller takes from the channel here            *)
FullIndexes == {i \in 1 .. Len(info_ch) : info_ch[i].type = "Full"}
PrevPv ==
    IF FullIndexes = {} THEN EmptyArray
    ELSE info_ch[CHOOSE i \in FullIndexes : \A j \in FullIndexes : j <= i].pv

(* the moves made at plies 0 .. ply - 1 are those of the previous PV *)
BranchOnPv(ply) ==
    \A q \in 0 .. ply - 1 :
        /\ Get(PrevPv, q, None) # None
        /\ SameMove(Get(worker.info.current_branch, q, None), Get(PrevPv, q, None))

PvBonus(mv, ply) ==
    IF /\ BranchOnPv(ply)
       /\ Get(PrevPv, ply, None) # None
       /\ SameMove(Some(mv), Get(PrevPv, ply, None))
    THEN 100 ELSE 0

(* the frames of the stack whose move list has been scored *)
ScoredFrames ==
    {k \in 1 .. Len(worker.stack) :
        worker.stack[k].fn = "negamax" /\ worker.stack[k].stage \in {"loop", "child"}}

(* C24: in every negamax frame the sort_score of each move of the list is   *)
(* 100 if the moves made at the plies above are those of the previous       *)
(* iteration's principal variation and the move is that variation's move    *)
(* at the frame's ply (and 0 if not), plus the move's MVV-LVA value; so the *)
(* root move of the previous iteration's PV has the bonus in every later    *)
(* iteration.                                                               *)
C24_SortScore ==
    worker.pc = "search" =>
        \A k \in ScoredFrames :
            LET f == worker.stack[k] IN
            \A i \in 1 .. Len(f.moves) :
                f.moves[i].sort_score = PvBonus(f.moves[i], f.ply) + mvv_lva(f.moves[i])

----------------------------------------------------------------------------
(* The Zobrist code table: each lookup of zobrist.rs applied to one feature *)
(* of a position.                                                           *)

(* zobrist.rs: ZobristCodes([u64; 761]) *)
ZOBRIST_LEN == 761

(* the features a position is hashed by: a piece on a square (pawns stand   *)
(* on squares 8 .. 55), a set of castling rights, an en-passant square (on  *)
(* the third or the sixth rank) and the side to move                        *)
ZobristFeatures ==
    {[kind |-> "piece", piece |-> p, sq |-> sq] :
        p \in 0 .. 11 \ {Pawn(White), Pawn(Black)}, sq \in Squares}
    \cup {[kind |-> "piece", piece |-> p, sq |-> sq] :
            p \in {Pawn(White), Pawn(Black)}, sq \in 8 .. 55}
    \cup {[kind |-> "castling", castling |-> c] : c \in SUBSET CastlingFlags}
    \cup {[kind |-> "en_passant", sq |-> sq] : sq \in (16 .. 23) \cup (40 .. 47)}
    \cup {[kind |-> "turn"]}

(* the index a feature's code is read at *)
ZobristIndex(f) ==
    CASE f.kind = "piece" -> ZobristPiece(f.piece, f.sq)
      [] f.kind = "castling" -> ZobristCastling(f.castling)
      [] f.kind = "en_passant" -> ZobristEnPassant(f.sq)
      [] OTHER -> ZobristTurn

(* the en-passant code depends on the file alone *)
SameFeature(f, g) ==
    IF f.kind = "en_passant" /\ g.kind = "en_passant" THEN file(f.sq) = file(g.sq)
    ELSE f = g

ZobristInit ==
    /\ \E f \in ZobristFeatures : call = [name |-> "zobrist", feature |-> f]
    /\ result = None
    /\ movelist = [moves |-> <<>>, length |-> 0, curr |-> 0]
    /\ PosIdle
    /\ EngIdle

(* one lookup: the index read, and whether the read is inside the table *)
Z_Lookup ==
    /\ call.name = "zobrist"
    /\ result = None
    /\ result' = Some([index |-> ZobristIndex(call.feature),
                       panicked |-> ZobristIndex(call.feature) >= ZOBRIST_LEN])
    /\ UNCHANGED <<posVars, engVars, movelist, call>>

ZobristNext == Z_Lookup
SpecZobrist == ZobristInit /\ [][ZobristNext]_vars

(* C26: the index of every feature's code is inside 0 .. 760, and no other  *)
(* feature's code is read at the same index.                                *)
C26_ZobristPartition ==
    (call.name = "zobrist" /\ result # None) =>
        /\ ~Unwrap(result).panicked
        /\ Unwrap(result).index \in 0 .. ZOBRIST_LEN - 1
        /\ \A g \in ZobristFeatures :
              ~SameFeature(g, call.feature) => ZobristIndex(g) # Unwrap(result).index

----------------------------------------------------------------------------
(* Deep searches: the search alone on the line of single moves, to the      *)
(* depth of `go depth 2` and of `go depth MaxDeepDepth`.                    *)
MaxDeepDepth == 65

DeepInit ==
    /\ \E stop_depth \in {2, MaxDeepDepth} :
         worker = [WorkerNone EXCEPT !.pc = "drain",
                     !.pos = GamePosition(ChainFirst, 0),
                     !.root = GamePosition(ChainFirst, 0),
                     !.stop_depth = stop_depth,
                     !.stop_nodes = U32_MAX,
                     !.history = EmptyArray]
    /\ engine = [EngineInit(GamePosition(ChainFirst, 0)) EXCEPT !.search_handle = TRUE]
    /\ call = [name |-> "none"]
    /\ ghost = [GhostInit EXCEPT !.nSpawned = 1, !.nWorkers = 1]
    /\ cpc = "input"
    /\ now = 0
    /\ search_ch = <<>>
    /\ info_ch = <<>>
    /\ PosIdle
    /\ movelist = [moves |-> <<>>, length |-> 0, curr |-> 0]
    /\ result = <<>>

SpecDeep == DeepInit /\ [][SearchNext]_vars

(* the first index of the row of a ply, and the last index of a frame's row *)
RowStart(p) == p * MAX_DEPTH - (p * (p - 1)) \div 2
RowEnd(f) == f.pv_idx + MAX_DEPTH - f.ply - 1

(* the frames at a ply below MAX_DEPTH *)
ShallowFrames == {k \in 1 .. Len(worker.stack) : worker.stack[k].ply < MAX_DEPTH}

(* hoist_pv: the number of entries copied *)
RECURSIVE HoistCount(_, _, _)
HoistCount(pv, source, len) ==
    IF len = 0 \/ Get(pv, source, None) = None THEN 0
    ELSE 1 + HoistCount(pv, source + 1, len - 1)

(* the indices of triangular_pv the alpha-raise of a frame writes and       *)
(* reads: its own entry, the targets and sources of the entries copied, and *)
(* the source entry found empty                                             *)
RaiseIndexes(f, pv) ==
    LET len == MAX_DEPTH - f.ply - 1
        n == HoistCount(pv, next_pv_idx(f), len)
    IN  {f.pv_idx}
        \cup {f.pv_idx + 1 + i : i \in 0 .. n - 1}
        \cup {next_pv_idx(f) + i : i \in 0 .. (IF n < len THEN n ELSE n - 1)}

(* C25: every frame at a ply p below MAX_DEPTH has pv_idx equal to          *)
(* p*MAX_DEPTH - p*(p-1)/2, its child has pv_idx + MAX_DEPTH - p, the rows  *)
(* pv_idx .. pv_idx + MAX_DEPTH - p - 1 of frames at different plies do not *)
(* overlap, and every index of triangular_pv written, or touched by the     *)
(* alpha-raise and hoist_pv of the frame a call has just returned to, is    *)
(* below PV_SIZE.                                                           *)
C25_TriangularIndexing ==
    /\ \A k \in ShallowFrames :
          LET f == worker.stack[k] IN
          /\ f.pv_idx = RowStart(f.ply)
          /\ k < Len(worker.stack) =>
                worker.stack[k + 1].pv_idx = f.pv_idx + MAX_DEPTH - f.ply
          /\ \A j \in ShallowFrames :
                worker.stack[j].ply # f.ply =>
                    \/ RowEnd(f) < worker.stack[j].pv_idx
                    \/ RowEnd(worker.stack[j]) < f.pv_idx
          /\ (k = Len(worker.stack) /\ f.stage = "child" /\ worker.ret # None) =>
                RaiseIndexes(f, worker.info.triangular_pv) \subseteq 0 .. PV_SIZE - 1
    /\ DOMAIN worker.info.triangular_pv \subseteq 0 .. PV_SIZE - 1

(* a call has returned to the frame at the last ply below MAX_DEPTH *)
C25_Witness ==
    /\ worker.pc = "search"
    /\ Top(worker).ply = MAX_DEPTH - 1
    /\ Top(worker).stage = "child"
    /\ worker.ret # None
    /\ HoistCount(worker.info.triangular_pv, RowStart(1), MAX_DEPTH - 1) = MAX_DEPTH - 2

(* C30: whatever the depth of `go`, no negamax frame that searches moves is *)
(* at a ply of MAX_DEPTH or more, and no access to current_branch or        *)
(* triangular_pv is out of bounds.                                          *)
C30_PlyBelowMaxDepth ==
    /\ worker.pc # "panicked"
    /\ \A k \in 1 .. Len(worker.stack) :
          (worker.stack[k].fn = "negamax" /\ worker.stack[k].stage # "enter")
              => worker.stack[k].ply < MAX_DEPTH

----------------------------------------------------------------------------
(* Repetition: the search alone, to `go depth 6`, on the line of quiet      *)
(* moves and on a position that occurred once before in the game.           *)
MaxRepeatDepth == 6

RepeatRoots ==
    {[pos |-> GamePosition(QuietFirst, 0), history |-> EmptyArray],
     [pos |-> GamePositionAt(1, 4, 4), history |-> Put(EmptyArray, 0, 1)]}

RepeatInit ==
    /\ \E root \in RepeatRoots : \E stop_depth \in 1 .. MaxRepeatDepth :
         /\ engine = [EngineInit(root.pos) EXCEPT !.history = root.history,
                                                  !.search_handle = TRUE]
         /\ worker = [WorkerNone EXCEPT !.pc = "drain",
                        !.pos = root.pos,
                        !.root = root.pos,
                        !.stop_depth = stop_depth,
                        !.stop_nodes = U32_MAX,
                        !.history = root.history]
    /\ call = [name |-> "none"]
    /\ ghost = [GhostInit EXCEPT !.nSpawned = 1, !.nWorkers = 1]
    /\ cpc = "input"
    /\ now = 0
    /\ search_ch = <<>>
    /\ info_ch = <<>>
    /\ PosIdle
    /\ movelist = [moves |-> <<>>, length |-> 0, curr |-> 0]
    /\ result = <<>>

SpecRepeat == RepeatInit /\ [][SearchNext]_vars

(* the hashes of the positions on the path to the node searched: those of   *)
(* the game, which the controller handed over, and those the frames of the  *)
(* stack made their move from                                               *)
PathHashes ==
    {worker.history[p] : p \in DOMAIN worker.history \cap (0 .. worker.root.ply - 1)}
    \cup {Unwrap(worker.stack[k].prev).hash : k \in 1 .. Len(worker.stack)}

(* a call has just returned through the draw test *)
ReturnedDraw ==
    /\ worker.pc \in {"search", "iterend"}
    /\ worker.ret # None
    /\ worker.returned.branch = "draw"

(* C27: a frame returns through the draw test, with the halfmove clock      *)
(* below the limit, only if the hash of its position is that of a position  *)
(* earlier on the path to it: a position of the game or one the current     *)
(* branch went through.                                                     *)
C27_NoFalseRepetition ==
    (ReturnedDraw /\ worker.pos.halfmove < HALFMOVE_DRAW_COUNT)
        => worker.pos.hash \in PathHashes

----------------------------------------------------------------------------
(* The principal variation of the Full messages *)

(* whether the moves of pv from index i on can be played one after another  *)
(* from the position id: each is a move of the position it is played in and *)
(* does not leave the mover's king attacked                                 *)
RECURSIVE Playable(_, _, _)
Playable(id, pv, i) ==
    IF Get(pv, i, None) = None THEN TRUE
    ELSE LET m == Unwrap(pv[i]).m
             succ == GameSucc(id)
         IN  IF m > Len(succ) THEN FALSE
             ELSE IF GameLeavesKing(succ[m]) THEN FALSE
             ELSE Playable(succ[m], pv, i + 1)

(* C28: the pv of every Full message the worker has sent is a line that can *)
(* be played from the root position: its first move is legal in the root    *)
(* and each later move is legal in the position the moves before it lead    *)
(* to.                                                                      *)
C28_PvPlayable ==
    \A i \in 1 .. Len(info_ch) :
        info_ch[i].type = "Full" => Playable(worker.root.hash, info_ch[i].pv, 0)

----------------------------------------------------------------------------
====
